---------------------------- MODULE Spec2Model ----------------------------
(***************************************************************************)
(* Model of alembic's autogenerate: the schema diff pass and the operation *)
(* renderer.  Two implementations live in the repository and both are      *)
(* modelled; the variable impl says which one a pass runs:                 *)
(*   "module"  - alembic/autogenerate.py           (reference-only flag)   *)
(*   "package" - alembic/autogenerate/compare.py   (object filters,        *)
(*                                                  unique constraints)    *)
(***************************************************************************)
EXTENDS Integers, Sequences, FiniteSets, TLC

VARIABLES
    impl,                 \* which implementation runs the pass
    entry,                \* entry point: "compare_metadata" | "_produce_migration_diffs"
    opts,                 \* configuration of the pass
    metadata,             \* desired schema: table key -> table
    sorted_tables,        \* metadata.sorted_tables: sequence of table keys
    db,                   \* live schema: table key -> table
    pc,                   \* position of the pass
    conn_table_names,     \* set of <<schema, name>> seen in the database
    metadata_table_names, \* OrderedSet of <<schema, name>> of the model
    remove_tables,        \* the remove_tables argument of _compare_tables
    diffs,                \* the change list
    todo,                 \* sorted(existing_tables) still to compare
    c_uniques,            \* return value of _compare_uniques for todo's head
    upgrades,             \* instructions of the apply block
    downgrades,           \* instructions of the revert block
    imports,              \* template_args['imports'], None until written
    template_args,        \* the two block texts of template_args, None until written
    first_diffs,          \* the change lists of the earlier passes on the same inputs
    call,                 \* arguments of a comparator called on its own, or NoneV
    no_such_table,        \* tables whose listing raised NoSuchTableError in the adapter
    removal_metadata,     \* the tables loaded into removal_metadata, in the order loaded
    error                 \* exception that ended the pass, or None

vars == <<impl, entry, opts, metadata, sorted_tables, db, pc, conn_table_names,
          metadata_table_names, remove_tables, diffs, todo, c_uniques,
          upgrades, downgrades, imports, template_args, first_diffs, call,
          no_such_table, removal_metadata, error>>

-----------------------------------------------------------------------------
(* Python values *)

\* Python's None, where the other values are strings
None == "<None>"

\* Python's None, where the other values are records
NoneV == [k |-> "None"]

Str(s) == [k |-> "str", s |-> s]

DefaultClause(arg) == [k |-> "DefaultClause", arg |-> arg]

\* what _compare_uniques returns: None, or the set c_keys
NoKeys == [k |-> "None"]

Keys(S) == [k |-> "set", keys |-> S]

Range(s) == {s[i] : i \in 1..Len(s)}

\* every order in which the elements of S can be iterated
Orders(S) == {s \in [1..Cardinality(S) -> S] : Range(s) = S}

\* ascending order of the identifiers the model uses (Python's str order)
NameOrder == <<"a", "c", "d", "e", "id", "ix", "s", "s.a", "t", "uq", "x">>

NameRank(n) == CHOOSE i \in 1..Len(NameOrder) : NameOrder[i] = n

\* Python 2 orders None before every string
SchemaRank(s) == IF s = None THEN 0 ELSE NameRank(s)

\* tuple order of (schema, name)
TupleLess(t, u) == \/ SchemaRank(t[1]) < SchemaRank(u[1])
                   \/ /\ t[1] = u[1]
                      /\ NameRank(t[2]) < NameRank(u[2])

\* sorted(S, key=lambda t: t[1]): the schema is left out of the order
SortedTuplesByName(S) == CHOOSE s \in Orders(S) :
                            \A i, j \in 1..Len(s) :
                               i < j => NameRank(s[i][2]) <= NameRank(s[j][2])

\* sorted(set of <<schema, name>>)
SortedTuples(S) == CHOOSE s \in Orders(S) :
                      \A i, j \in 1..Len(s) : i < j => TupleLess(s[i], s[j])

\* sorted(set of names)
SortedNames(S) == CHOOSE s \in Orders(S) :
                     \A i, j \in 1..Len(s) : i < j => NameRank(s[i]) < NameRank(s[j])

\* '%s.%s' % (s, tname) if s else tname, as the pair's key
TableKey(s, tname) == IF s = None THEN tname ELSE s \o "." \o tname

-----------------------------------------------------------------------------
(* Type descriptors: cls is the class name, args the constructor arguments  *)
(* repr() shows (name, value), affinity the _type_affinity.                 *)

Type(cls, args, affinity) == [cls |-> cls, args |-> args, affinity |-> affinity]

INTEGER      == Type("INTEGER", <<>>, "Integer")
Integer      == Type("Integer", <<>>, "Integer")
VARCHAR(n)   == Type("VARCHAR", <<<<"length", n>>>>, "String")
CHAR0        == Type("CHAR", <<>>, "String")
NUMERIC(p, q) == Type("NUMERIC", <<<<"precision", p>>, <<"scale", q>>>>, "Numeric")
NullType     == Type("NullType", <<>>, "NullType")
Boolean      == Type("Boolean", <<>>, "Boolean")
SqlBOOLEAN   == Type("BOOLEAN", <<>>, "Boolean")
TEXT         == Type("TEXT", <<>>, "Text")
MEDIUMTEXT   == Type("MEDIUMTEXT", <<>>, "Text")

\* class MyType(TypeDecorator) with impl = CHAR
MyType       == Type("MyType", <<>>, "String")

\* MyType.load_dialect_impl on the connection's dialect (sqlite): the type
\* the dialect implements the declared type as; any other type is its own
LoadDialectImpl(t) == IF t = MyType THEN Integer ELSE t

\* str.upper() on the class names the model uses
Upper(name) ==
    CASE name = "Integer"  -> "INTEGER"
      [] name = "Numeric"  -> "NUMERIC"
      [] name = "Boolean"  -> "BOOLEAN"
      [] name = "String"   -> "STRING"
      [] name = "PickleType" -> "PICKLETYPE"
      [] name = "NullType" -> "NULLTYPE"
      [] name = "MyType"   -> "MYTYPE"
      [] OTHER -> name

HasArg(t, key) == \E i \in 1..Len(t.args) : t.args[i][1] = key

Arg(t, key) == t.args[CHOOSE i \in 1..Len(t.args) : t.args[i][1] = key][2]

\* the exception '%d' % None raises
TypeError == [k |-> "TypeError"]

\* the signature _get_type returns, as (name, arguments); comparison is made
\* on the upper-cased text, so the name is kept as written here and
\* upper-cased by _compare
GetTypeVarchar(t) ==
    IF HasArg(t, "length")
    THEN [name |-> t.cls, args |-> <<<<"length", Arg(t, "length")>>>>]
    ELSE TypeError

GetType(t) ==
    LET name == Upper(t.cls) IN
    CASE name \in {"VARCHAR", "CHAR"} -> GetTypeVarchar(t)
      [] name = "DECIMAL" ->
            IF HasArg(t, "precision") /\ HasArg(t, "scale")
            THEN [name |-> "Numeric",
                  args |-> <<<<"precision", Arg(t, "precision")>>,
                             <<"scale", Arg(t, "scale")>>>>]
            ELSE TypeError
      [] name = "PICKLETYPE" -> [name |-> "BLOB", args |-> <<>>]
      [] name = "INTEGER" -> [name |-> "INTEGER", args |-> <<>>]
      [] OTHER -> [name |-> t.cls, args |-> t.args]

UpperSig(r) == [name |-> Upper(r.name), args |-> r.args]

\* _compare(c1, c2): isdiff, or the TypeError _get_type raises
Compare(c1, c2) ==
    LET r1 == GetType(c1)
        r2 == GetType(c2)
        BooleanSig == [name |-> "BOOLEAN", args |-> <<>>]
        MediumTextSig == [name |-> "MEDIUMTEXT", args |-> <<>>]
    IN  IF r1 = TypeError \/ r2 = TypeError THEN [raised |-> TRUE, isdiff |-> FALSE]
        ELSE IF UpperSig(r1) = BooleanSig \/ UpperSig(r2) = BooleanSig
             THEN [raised |-> FALSE, isdiff |-> FALSE]
        ELSE IF UpperSig(r1) = MediumTextSig THEN [raised |-> FALSE, isdiff |-> FALSE]
        ELSE [raised |-> FALSE, isdiff |-> UpperSig(r1) # UpperSig(r2)]

-----------------------------------------------------------------------------
(* Server defaults: strings are sequences of characters *)

Quote == "'"

DQuote == "dq"

\* re.sub(r"^'|'$", "", default)
StripQuotes(s) ==
    LET s1 == IF s # <<>> /\ Head(s) = Quote THEN Tail(s) ELSE s
    IN  IF s1 # <<>> /\ s1[Len(s1)] = Quote THEN SubSeq(s1, 1, Len(s1) - 1) ELSE s1

\* repr(str): single quotes unless the text holds one (and no double quote)
Repr(s) ==
    IF (\E i \in 1..Len(s) : s[i] = Quote) /\ ~(\E i \in 1..Len(s) : s[i] = DQuote)
    THEN <<DQuote>> \o s \o <<DQuote>>
    ELSE <<Quote>> \o s \o <<Quote>>

\* what a render_item override returns: a rendering of its own, or False
Custom(type_, text) == [k |-> "custom", type_ |-> type_, text |-> text]

NotRendered == [k |-> "False"]

\* the render_item override the model configures: it renders every table,
\* the column d, the server default 'x' and every unique constraint itself,
\* and returns False for anything else
RenderItem(type_, object_) ==
    CASE type_ = "table" -> Custom("table", object_.name)
      [] type_ = "column" /\ object_.name = "d" -> Custom("column", "d")
      [] type_ = "server_default" /\ object_ = DefaultClause(Str(<<"x">>)) ->
            Custom("server_default", "x")
      [] type_ = "unique" -> Custom("unique", object_.name)
      [] OTHER -> NotRendered

\* _user_defined_render
UserDefinedRender(type_, object_) ==
    IF opts.render_item # None THEN RenderItem(type_, object_) ELSE NotRendered

\* _render_server_default(default, autogen_context)
RenderServerDefault(default) ==
    LET rendered == UserDefinedRender("server_default", default)
        d == IF default.k = "DefaultClause" THEN default.arg ELSE default
    IN  IF rendered # NotRendered THEN rendered
        ELSE IF d.k = "str" THEN Str(Repr(StripQuotes(d.s))) ELSE NoneV

\* context._compare_server_default: the rendered defaults differ
ImplCompareServerDefault(rendered_metadata_default, rendered_conn_default) ==
    rendered_conn_default # rendered_metadata_default

-----------------------------------------------------------------------------
(* Schema snapshots *)

Column(name, type, nullable, server_default) ==
    [name |-> name, type |-> type, nullable |-> nullable,
     server_default |-> server_default]

Index(name, column_names, unique) ==
    [name |-> name, column_names |-> column_names, unique |-> unique]

UniqueConstraint(name, column_names) ==
    [name |-> name, column_names |-> column_names]

\* fks: keys of the tables the table's foreign keys reference;
\* mapping_only: the table's __mapping_only__ (reference-only) flag
Table(schema, name, cols, indexes, uniques, fks, mapping_only) ==
    [schema |-> schema, name |-> name, cols |-> cols, indexes |-> indexes,
     uniques |-> uniques, fks |-> fks, mapping_only |-> mapping_only]

ColId == Column("id", INTEGER, FALSE, NoneV)

DefaultX == DefaultClause(Str(<<"x">>))

\* the default 'x' as the database reports it
DefaultQuotedX == DefaultClause(Str(<<Quote, "x", Quote>>))

Default0 == DefaultClause(Str(<<"0">>))

\* table a with an index and a named unique constraint
A2 == Table(None, "a",
            <<ColId, Column("c", VARCHAR(100), FALSE, DefaultX),
              Column("d", Integer, TRUE, NoneV)>>,
            {Index("ix", <<"c">>, FALSE)},
            {UniqueConstraint("uq", <<"id">>)}, {}, FALSE)

A2ro == [A2 EXCEPT !.mapping_only = TRUE]

\* table a as found in a database created from A2: the unique constraint is
\* listed among the indexes too
A2db == [A2 EXCEPT !.indexes = @ \cup {Index("uq", <<"id">>, TRUE)},
                   !.cols[2].server_default = DefaultQuotedX]

\* an older table a in the database
A0db == Table(None, "a",
              <<ColId, Column("c", VARCHAR(50), TRUE, NoneV),
                Column("e", INTEGER, TRUE, NoneV)>>,
              {Index("ix", <<"id">>, TRUE), Index("uq", <<"c">>, TRUE)},
              {UniqueConstraint("uq", <<"c">>)}, {}, FALSE)

\* table a with a CHAR column that has no length
A3 == Table(None, "a", <<ColId, Column("x", CHAR0, TRUE, NoneV)>>,
            {}, {}, {}, FALSE)

\* table a with a column whose type has no affinity (NullType)
An == Table(None, "a", <<ColId, Column("x", NullType, FALSE, NoneV)>>,
            {}, {}, {}, FALSE)

T1 == Table(None, "t", <<ColId>>, {}, {}, {}, FALSE)

\* table t with a foreign key to table a
Tfk == Table(None, "t", <<ColId, Column("c", INTEGER, TRUE, NoneV)>>,
             {}, {}, {"a"}, FALSE)

T0db == Table(None, "t", <<Column("id", INTEGER, TRUE, NoneV)>>, {}, {}, {}, FALSE)

\* table a of schema s, with an index
S1 == Table("s", "a", <<Column("id", INTEGER, FALSE, Default0)>>,
            {Index("ix", <<"id">>, FALSE)}, {}, {}, FALSE)

\* table a of schema s in the database: its index ix is a unique one
S0db == Table("s", "a", <<ColId>>, {Index("ix", <<"id">>, TRUE)}, {}, {}, FALSE)

\* the table alembic keeps its applied revisions in
AlembicVersion == Table(None, "alembic_version",
                        <<Column("version_num", VARCHAR(32), FALSE, NoneV)>>,
                        {}, {}, {}, FALSE)

DesiredA == {{}, {A2}, {A2ro}, {A3}, {An}}
LiveA    == {{}, {A2db}, {A0db}, {A3}, {An}}
DesiredT == {{}, {T1}, {Tfk}}
LiveT    == {{}, {T0db}, {Tfk}}
DesiredS == {{}, {S1}}
LiveS    == {{}, {S0db}}

KeyOf(t) == TableKey(t.schema, t.name)

\* a MetaData holding the tables of T: metadata.tables, by key
MetaData(T) == [k \in {KeyOf(t) : t \in T} |-> CHOOSE t \in T : KeyOf(t) = k]

\* metadata.tables in any order, foreign keys not looked at
SortedTablesUnordered(m) == Orders(DOMAIN m)

\* metadata.sorted_tables: an order of the keys in which every table comes
\* after the tables its foreign keys reference
SortedTables(m) ==
    {s \in Orders(DOMAIN m) :
        \A i, j \in 1..Len(s) : s[i] \in m[s[j]].fks => i < j}

-----------------------------------------------------------------------------
(* Configuration *)

\* longest chain of object filters a pass is given
MaxFilters == 1

\* most tables a snapshot (desired or live) holds, alembic_version apart
MaxTables == 2

\* the include_symbol predicate the model configures:
\* lambda name, schema: schema != 's'
IncludeSymbol(name, schema) == schema # "s"

\* a second predicate: lambda name, schema: schema == 's'
IncludeOnlySchemaS(name, schema) == schema = "s"

\* object filters fn(object_, name, type_, reflected, compare_to)
FilterNames == {"skip_table_t", "skip_reflected_columns"}

ApplyFilter(fn, object_, name, type_, reflected, compare_to) ==
    CASE fn = "skip_table_t" -> ~(type_ = "table" /\ name = "t")
      [] fn = "skip_reflected_columns" -> ~(type_ = "column" /\ reflected)

\* the predicates are not asked
RunFiltersIgnored(object_, name, type_, reflected, compare_to, object_filters) == TRUE

\* _run_filters: every predicate of the chain accepts the object
RunFilters(object_, name, type_, reflected, compare_to, object_filters) ==
    \A i \in 1..Len(object_filters) :
        ApplyFilter(object_filters[i], object_, name, type_, reflected, compare_to)

FilterChains == UNION {[1..n -> FilterNames] : n \in 0..MaxFilters}

\* opts of the migration context, the remove_tables main option, the object
\* filters handed to compare.py, and whether the dialect's inspector lists
\* unique constraints or raises NotImplementedError; target_metadata is None
\* when the environment script gives no MetaData, and the variable metadata
\* is then the empty collection no step reads
ModuleOpts ==
    [remove_tables : {"1", None}, include_symbol : {None, "IncludeSymbol", "IncludeOnlySchemaS"},
     include_schemas : BOOLEAN, object_filters : {<<>>},
     unique_reflection : {"supported"}, target_metadata : {"MetaData", None},
     render_item : {None}]
    \cup
    [remove_tables : {None}, include_symbol : {None},
     include_schemas : {FALSE}, object_filters : {<<>>},
     unique_reflection : {"supported"}, target_metadata : {"MetaData"},
     render_item : {"RenderItem"}]

PackageOpts ==
    [remove_tables : {"1", None}, include_symbol : {None},
     include_schemas : {TRUE}, object_filters : FilterChains,
     unique_reflection : {"supported", "NotImplementedError"},
     target_metadata : {"MetaData"}, render_item : {None}]

DefaultOpts ==
    [remove_tables |-> None, include_symbol |-> None,
     include_schemas |-> FALSE, object_filters |-> <<>>,
     unique_reflection |-> "supported", target_metadata |-> "MetaData",
     render_item |-> None]

-----------------------------------------------------------------------------
(* The pass *)

Init ==
    /\ \E i \in {"module", "package"}, e \in {"compare_metadata", "_produce_migration_diffs"} :
          /\ i = "package" => e = "_produce_migration_diffs"
          /\ impl = i
          /\ entry = e
          /\ opts \in (IF e = "compare_metadata" THEN {DefaultOpts}
                       ELSE IF i = "module" THEN ModuleOpts ELSE PackageOpts)
    /\ \E da \in DesiredA, dt \in DesiredT, ds \in DesiredS :
          /\ Cardinality(da \cup dt \cup ds) <= MaxTables
          /\ opts.target_metadata = None => da \cup dt \cup ds = {}
          /\ metadata = MetaData(da \cup dt \cup ds)
          /\ sorted_tables \in SortedTables(MetaData(da \cup dt \cup ds))
    /\ \E la \in LiveA, lt \in LiveT, ls \in LiveS :
          /\ Cardinality(la \cup lt \cup ls) <= MaxTables
          /\ db = [t \in {<<x.schema, x.name>> : x \in la \cup lt \cup ls \cup {AlembicVersion}}
                  |-> CHOOSE x \in la \cup lt \cup ls \cup {AlembicVersion} :
                         <<x.schema, x.name>> = t]
    /\ pc = "start"
    /\ conn_table_names = {}
    /\ metadata_table_names = <<>>
    /\ remove_tables = FALSE
    /\ diffs = <<>>
    /\ todo = <<>>
    /\ c_uniques = NoKeys
    /\ upgrades = <<>>
    /\ downgrades = <<>>
    /\ imports = None
    /\ template_args = [upgrades |-> None, downgrades |-> None]
    /\ first_diffs = <<>>
    /\ call = NoneV
    /\ no_such_table = {}
    /\ removal_metadata = <<>>
    /\ error = None

\* inspector.get_schema_names()
GetSchemaNames == {"information_schema", "public"} \cup ({t[1] : t \in DOMAIN db} \ {None})

\* inspector.get_table_names(schema=s); the default schema is asked for as None
GetTableNames(s) == {t[2] : t \in {u \in DOMAIN db : u[1] = s}}

Schemas ==
    IF opts.include_schemas
    THEN ((GetSchemaNames \ {"information_schema"}) \cup {None}) \ {"public"}
    ELSE {None}

ConnTableNames ==
    UNION {{<<s, t>> : t \in GetTableNames(s) \ {"alembic_version"}} : s \in Schemas}

\* remove_tables passed as true whatever the entry point and the option
RemoveTablesArgAlways == TRUE

\* the remove_tables argument the entry point passes on
RemoveTablesArg ==
    IF entry = "compare_metadata" THEN FALSE ELSE opts.remove_tables = "1"

\* include_symbol(name, s), when the option is set
Included(t) ==
    CASE opts.include_symbol = None -> TRUE
      [] opts.include_symbol = "IncludeSymbol" -> IncludeSymbol(t[2], t[1])
      [] opts.include_symbol = "IncludeOnlySchemaS" -> IncludeOnlySchemaS(t[2], t[1])

\* metadata is always given
MetadataMissingNever == FALSE

\* _produce_migration_diffs finds no MetaData in the context's opts
MetadataMissing ==
    entry = "_produce_migration_diffs" /\ opts.target_metadata = None

CommandError == "CommandError"

\* _produce_migration_diffs without target metadata: raises CommandError
RaiseCommandError ==
    /\ pc = "start"
    /\ MetadataMissing
    /\ error' = CommandError
    /\ pc' = "error"
    /\ UNCHANGED <<removal_metadata, no_such_table, call, first_diffs, imports, template_args, impl, entry, opts, metadata, sorted_tables, db,
                   conn_table_names, metadata_table_names, remove_tables, diffs,
                   todo, c_uniques, upgrades, downgrades>>

\* _produce_net_changes up to its call of _compare_tables
ProduceNetChanges ==
    /\ pc = "start"
    /\ ~MetadataMissing
    /\ conn_table_names' = {t \in ConnTableNames : Included(t)}
    /\ metadata_table_names' =
          SelectSeq([i \in 1..Len(sorted_tables) |->
                        <<metadata[sorted_tables[i]].schema, metadata[sorted_tables[i]].name>>],
                    Included)
    /\ remove_tables' = RemoveTablesArg
    /\ pc' = "add_tables"
    /\ UNCHANGED <<removal_metadata, no_such_table, call, first_diffs, imports, template_args, impl, entry, opts, metadata, sorted_tables, db, diffs, todo,
                   c_uniques, upgrades, downgrades, error>>

\* the exceptions that end a pass
KeyError == "KeyError"

NoSuchTableError == "NoSuchTableError"

AddTableEntry(table) == [kind |-> "add_table", table |-> table]

RemoveTableEntry(table) == [kind |-> "remove_table", table |-> table]

\* one round of the first loop of _compare_tables (autogenerate.py): the
\* entries it appends and the exception it raises, for the table (s, tname)
ModuleAddTable(s, tname) ==
    IF tname \notin DOMAIN metadata
    THEN [entries |-> <<>>, error |-> KeyError]
    ELSE IF metadata[tname].mapping_only
    THEN [entries |-> <<>>, error |-> None]
    ELSE [entries |-> <<AddTableEntry(metadata[TableKey(s, tname)])>>, error |-> None]

\* one round of the first loop of _compare_tables (compare.py)
PackageAddTable(s, tname) ==
    IF RunFilters(metadata[TableKey(s, tname)], tname, "table", FALSE, None,
                  opts.object_filters)
    THEN [entries |-> <<AddTableEntry(metadata[TableKey(s, tname)])>>, error |-> None]
    ELSE [entries |-> <<>>, error |-> None]

\* a loop over the sequence items whose round Body(x) appends entries or
\* raises: the entries appended until the loop ended, and the exception
RECURSIVE Loop(_, _, _)
Loop(items, body, acc) ==
    IF items = <<>> THEN [entries |-> acc, error |-> None]
    ELSE LET r == body[Head(items)]
         IN  IF r.error # None
             THEN [entries |-> acc \o r.entries, error |-> r.error]
             ELSE Loop(Tail(items), body, acc \o r.entries)

\* metadata_table_names.difference(conn_table_names): an OrderedSet
DesiredOnly == SelectSeq(metadata_table_names, LAMBDA t : t \notin conn_table_names)

\* every table of the database, the matched ones too
LiveOnlyAll == conn_table_names

\* conn_table_names.difference(metadata_table_names): a set
LiveOnly == conn_table_names \ Range(metadata_table_names)

\* conn_table_names.intersection(metadata_table_names)
ExistingTables == conn_table_names \cap Range(metadata_table_names)

\* how the pass goes on when the tables are compared (or none is left):
\* _produce_migration_diffs of autogenerate.py renders the two blocks
AfterTables(rest) ==
    IF rest # <<>> THEN "columns"
    ELSE IF entry = "compare_metadata" \/ impl = "package" THEN "done" ELSE "upgrade"

\* first loop of _compare_tables: tables only in the model
CompareTablesAdd ==
    /\ pc = "add_tables"
    /\ LET body == [t \in Range(DesiredOnly) |->
                       IF impl = "module" THEN ModuleAddTable(t[1], t[2])
                       ELSE PackageAddTable(t[1], t[2])]
           r == Loop(DesiredOnly, body, diffs)
       IN  /\ diffs' = r.entries
           /\ error' = r.error
           /\ pc' = IF r.error # None THEN "error" ELSE "remove_tables"
    /\ UNCHANGED <<removal_metadata, no_such_table, call, first_diffs, imports, template_args, impl, entry, opts, metadata, sorted_tables, db, conn_table_names,
                   metadata_table_names, remove_tables, todo, c_uniques,
                   upgrades, downgrades>>

\* inspector.reflecttable(t, None) on a table the database lists
ReflectTable(s, tname) == db[<<s, tname>>]

\* one round of the second loop of _compare_tables
RemoveTable(s, tname) ==
    IF remove_tables
          /\ (impl = "package" =>
                 RunFilters(ReflectTable(s, tname), tname, "table", TRUE, None,
                            opts.object_filters))
    THEN [entries |-> <<RemoveTableEntry(ReflectTable(s, tname))>>, error |-> None]
    ELSE [entries |-> <<>>, error |-> None]

\* the tables of the database that the foreign keys of table t reference
ReferencedTables(t) == {u \in DOMAIN db : u[1] = None /\ u[2] \in db[t].fks}

\* the tables reflecttable(t) loads into a MetaData that holds the tables of
\* loaded: t, then the tables its foreign keys reference that are not loaded
ReflectLoads(t, loaded) ==
    <<t>> \o SortedTuples({u \in ReferencedTables(t) : u \notin Range(loaded) \cup {t}})

\* every table reflected, whether removal_metadata holds it or not
ReflectIfMissingAlways(t, loaded) == loaded \o ReflectLoads(t, loaded)

\* "exists = name in removal_metadata.tables ... if not exists:
\* inspector.reflecttable(t, None)"
ReflectIfMissing(t, loaded) ==
    IF t \in Range(loaded) THEN loaded ELSE loaded \o ReflectLoads(t, loaded)

\* removal_metadata after the second loop has visited the tables of order
RECURSIVE ReflectAll(_, _)
ReflectAll(order, loaded) ==
    IF order = <<>> THEN loaded
    ELSE ReflectAll(Tail(order), ReflectIfMissing(Head(order), loaded))

\* second loop of _compare_tables: tables only in the database, in the order
\* the set iterates; then existing_tables is sorted
CompareTablesRemove ==
    /\ pc = "remove_tables"
    /\ \E order \in Orders(LiveOnly) :
          LET body == [t \in LiveOnly |-> RemoveTable(t[1], t[2])]
              r == Loop(order, body, diffs)
          IN  /\ diffs' = r.entries
              /\ removal_metadata' = ReflectAll(order, <<>>)
    /\ todo' = SortedTuples(ExistingTables)
    /\ pc' = AfterTables(SortedTuples(ExistingTables))
    /\ UNCHANGED <<no_such_table, call, first_diffs, imports, template_args, impl, entry, opts, metadata, sorted_tables, db, conn_table_names,
                   metadata_table_names, remove_tables, c_uniques,
                   upgrades, downgrades, error>>

-----------------------------------------------------------------------------
(* Column comparison *)

\* the column record the comparators read: inspector.get_columns() reports
\* the default as its text (autogenerate.py), a reflected Column holds a
\* DefaultClause (compare.py)
ConnCol(col) ==
    IF impl = "module" /\ col.server_default # NoneV
    THEN [col EXCEPT !.server_default = @.arg]
    ELSE col

NoEntries == [entries |-> <<>>, error |-> None]

\* the types compared whatever their affinity
CompareTypeNoShortCircuit(schema, tname, cname, conn_col, metadata_col, mapping_only) ==
    LET c == Compare(conn_col.type, metadata_col.type)
    IN  IF c.raised THEN [entries |-> <<>>, error |-> "TypeError"]
        ELSE IF c.isdiff /\ ~mapping_only
        THEN [entries |->
                <<[kind |-> "modify_type", schema |-> schema, tname |-> tname,
                   cname |-> cname,
                   kw |-> [existing_nullable |-> conn_col.nullable,
                           existing_server_default |-> conn_col.server_default],
                   old |-> conn_col.type, new |-> metadata_col.type]>>,
              error |-> None]
        ELSE NoEntries

\* _compare_type: the sub-changes it appends to col_diff
CompareType(schema, tname, cname, conn_col, metadata_col, mapping_only) ==
    IF conn_col.type.affinity = "NullType" THEN NoEntries
    ELSE IF metadata_col.type.affinity = "NullType" THEN NoEntries
    ELSE LET c == Compare(conn_col.type, metadata_col.type)
         IN  IF c.raised THEN [entries |-> <<>>, error |-> "TypeError"]
             ELSE IF c.isdiff /\ ~mapping_only
             THEN [entries |->
                     <<[kind |-> "modify_type", schema |-> schema, tname |-> tname,
                        cname |-> cname,
                        kw |-> [existing_nullable |-> conn_col.nullable,
                                existing_server_default |-> conn_col.server_default],
                        old |-> conn_col.type, new |-> metadata_col.type]>>,
                   error |-> None]
             ELSE NoEntries

\* _compare_nullable carrying the type of the model's column
CompareNullableDesiredType(schema, tname, cname, conn_col, metadata_col, mapping_only) ==
    IF conn_col.nullable # metadata_col.nullable /\ ~mapping_only
    THEN [entries |->
            <<[kind |-> "modify_nullable", schema |-> schema, tname |-> tname,
               cname |-> cname,
               kw |-> [existing_type |-> metadata_col.type,
                       existing_server_default |-> conn_col.server_default],
               old |-> conn_col.nullable, new |-> metadata_col.nullable]>>,
          error |-> None]
    ELSE NoEntries

\* _compare_nullable
CompareNullable(schema, tname, cname, conn_col, metadata_col, mapping_only) ==
    IF conn_col.nullable # metadata_col.nullable /\ ~mapping_only
    THEN [entries |->
            <<[kind |-> "modify_nullable", schema |-> schema, tname |-> tname,
               cname |-> cname,
               kw |-> [existing_type |-> conn_col.type,
                       existing_server_default |-> conn_col.server_default],
               old |-> conn_col.nullable, new |-> metadata_col.nullable]>>,
          error |-> None]
    ELSE NoEntries

\* the old value a modify_default sub-change carries: the reported default
\* (autogenerate.py), the rendered reported default (compare.py)
ConnColDefault(conn_col) ==
    IF impl = "module" THEN conn_col.server_default
    ELSE RenderServerDefault(conn_col.server_default)

\* _compare_server_default with the two defaults of the entry exchanged
CompareServerDefaultSwapped(schema, tname, cname, conn_col, metadata_col, mapping_only) ==
    IF conn_col.server_default = NoneV /\ metadata_col.server_default = NoneV
    THEN NoEntries
    ELSE IF ImplCompareServerDefault(RenderServerDefault(metadata_col.server_default),
                                     RenderServerDefault(conn_col.server_default))
            /\ ~mapping_only
    THEN [entries |->
            <<[kind |-> "modify_default", schema |-> schema, tname |-> tname,
               cname |-> cname,
               kw |-> [existing_nullable |-> conn_col.nullable,
                       existing_type |-> conn_col.type],
               old |-> metadata_col.server_default, new |-> ConnColDefault(conn_col)]>>,
          error |-> None]
    ELSE NoEntries

\* _compare_server_default
CompareServerDefault(schema, tname, cname, conn_col, metadata_col, mapping_only) ==
    IF conn_col.server_default = NoneV /\ metadata_col.server_default = NoneV
    THEN NoEntries
    ELSE IF ImplCompareServerDefault(RenderServerDefault(metadata_col.server_default),
                                     RenderServerDefault(conn_col.server_default))
            /\ ~mapping_only
    THEN [entries |->
            <<[kind |-> "modify_default", schema |-> schema, tname |-> tname,
               cname |-> cname,
               kw |-> [existing_nullable |-> conn_col.nullable,
                       existing_type |-> conn_col.type],
               old |-> ConnColDefault(conn_col), new |-> metadata_col.server_default]>>,
          error |-> None]
    ELSE NoEntries

\* the list col_diff appended to diffs
CompoundEntry(col_diff) == [kind |-> "modify", subs |-> col_diff]

\* every sub-change appended as an entry of its own
CompareColumnSplit(schema, tname, conn_col, metadata_col, mapping_only) ==
    LET t == CompareType(schema, tname, metadata_col.name, conn_col, metadata_col,
                         mapping_only)
        n == CompareNullable(schema, tname, metadata_col.name, conn_col, metadata_col,
                             mapping_only)
        d == CompareServerDefault(schema, tname, metadata_col.name, conn_col,
                                  metadata_col, mapping_only)
        col_diff == t.entries \o n.entries \o d.entries
    IN  IF t.error # None THEN [entries |-> <<>>, error |-> t.error]
        ELSE [entries |-> [i \in 1..Len(col_diff) |-> CompoundEntry(<<col_diff[i]>>)],
              error |-> None]

\* one round of the third loop of _compare_columns: col_diff is filled by the
\* three comparators and appended when it is not empty
CompareColumn(schema, tname, conn_col, metadata_col, mapping_only) ==
    LET t == CompareType(schema, tname, metadata_col.name, conn_col, metadata_col,
                         mapping_only)
        n == CompareNullable(schema, tname, metadata_col.name, conn_col, metadata_col,
                             mapping_only)
        d == CompareServerDefault(schema, tname, metadata_col.name, conn_col,
                                  metadata_col, mapping_only)
        col_diff == t.entries \o n.entries \o d.entries
    IN  IF t.error # None THEN [entries |-> <<>>, error |-> t.error]
        ELSE IF col_diff # <<>> THEN [entries |-> <<CompoundEntry(col_diff)>>, error |-> None]
        ELSE NoEntries

ColNames(table) == {table.cols[i].name : i \in 1..Len(table.cols)}

Col(table, cname) == table.cols[CHOOSE i \in 1..Len(table.cols) : table.cols[i].name = cname]

AddColumnEntry(schema, tname, column) ==
    [kind |-> "add_column", schema |-> schema, tname |-> tname, column |-> column]

RemoveColumnEntry(schema, tname, column) ==
    [kind |-> "remove_column", schema |-> schema, tname |-> tname, column |-> column]

\* one round of the first loop of _compare_columns
AddColumn(schema, tname, metadata_table, cname) ==
    IF (impl = "package" =>
           RunFilters(Col(metadata_table, cname), cname, "column", FALSE, None,
                      opts.object_filters))
       /\ ~metadata_table.mapping_only
    THEN [entries |-> <<AddColumnEntry(schema, tname, Col(metadata_table, cname))>>,
          error |-> None]
    ELSE NoEntries

\* one round of the second loop of _compare_columns: the removed column is
\* built from the reported type, nullable and default
RemoveColumn(schema, tname, metadata_table, conn_table, cname) ==
    IF (impl = "package" =>
           RunFilters(Col(conn_table, cname), cname, "column", TRUE, None,
                      opts.object_filters))
       /\ ~metadata_table.mapping_only
    THEN [entries |-> <<RemoveColumnEntry(schema, tname, Col(conn_table, cname))>>,
          error |-> None]
    ELSE NoEntries

\* one round of the third loop of _compare_columns, with its filter call
ModifyColumn(schema, tname, metadata_table, conn_table, cname) ==
    IF impl = "package"
       /\ ~RunFilters(Col(metadata_table, cname), cname, "column", FALSE,
                      Col(conn_table, cname), opts.object_filters)
    THEN NoEntries
    ELSE CompareColumn(schema, tname, ConnCol(Col(conn_table, cname)),
                       Col(metadata_table, cname), metadata_table.mapping_only)

\* the three column loops of _compare_columns on diffs, for the given orders
ColumnLoops(schema, tname, metadata_table, conn_table, adds, removes, both) ==
    LET r1 == Loop(adds,
                   [c \in Range(adds) |-> AddColumn(schema, tname, metadata_table, c)],
                   diffs)
        r2 == Loop(removes,
                   [c \in Range(removes) |->
                       RemoveColumn(schema, tname, metadata_table, conn_table, c)],
                   r1.entries)
    IN  Loop(both,
             [c \in Range(both) |->
                 ModifyColumn(schema, tname, metadata_table, conn_table, c)],
             r2.entries)

-----------------------------------------------------------------------------
(* Index and unique-constraint comparison *)

\* what the adapter answers when asked, by table name alone, for the indexes
\* or unique constraints of a table the default schema does not hold
MissingTableOutcomes == {"empty", NoSuchTableError}

\* inspector.get_indexes(tname): the call names no schema
GetIndexes(tname, outcome) ==
    IF <<None, tname>> \in DOMAIN db
    THEN [records |-> db[<<None, tname>>].indexes, error |-> None]
    ELSE IF outcome = "empty" THEN [records |-> {}, error |-> None]
    ELSE [records |-> {}, error |-> NoSuchTableError]

\* inspector.get_unique_constraints(tname): the call names no schema
GetUniqueConstraints(tname, outcome) ==
    IF <<None, tname>> \in DOMAIN db
    THEN [records |-> db[<<None, tname>>].uniques, error |-> None]
    ELSE IF outcome = "empty" THEN [records |-> {}, error |-> None]
    ELSE [records |-> {}, error |-> NoSuchTableError]

IndexEntry(kind, index, tname, subject) ==
    [kind |-> kind,
     index |-> [name |-> index.name, table |-> tname, unique |-> index.unique,
                column_names |-> index.column_names],
     subject |-> subject]

ConstraintEntry(kind, constraint, tname, subject) ==
    [kind |-> kind,
     constraint |-> [name |-> constraint.name, table |-> tname,
                     column_names |-> constraint.column_names],
     subject |-> subject]

ByName(S, name) == CHOOSE x \in S : x.name = name

NamesOf(S) == {x.name : x \in S}

\* whether two index records differ: a != b on the dicts (autogenerate.py),
\* the unique flags or the column names differ (compare.py)
IndexChanged(meta_index, conn_index) ==
    \/ meta_index.unique # conn_index.unique
    \/ meta_index.column_names # conn_index.column_names

\* the three index loops, on the entries acc; m_keys and c_keys are the name
\* sets compared, the sequences the orders in which the loops visit them
IndexLoops(tname, subject, metadata_table, m_objs, c_objs, adds, removes, both, acc) ==
    LET r1 == Loop(adds,
                   [k \in Range(adds) |->
                       IF ~metadata_table.mapping_only
                       THEN [entries |-> <<IndexEntry("add_index", ByName(m_objs, k),
                                                      tname, subject)>>,
                             error |-> None]
                       ELSE NoEntries],
                   acc)
        r2 == Loop(removes,
                   [k \in Range(removes) |->
                       IF ~metadata_table.mapping_only
                       THEN [entries |-> <<IndexEntry("remove_index", ByName(c_objs, k),
                                                      tname, subject)>>,
                             error |-> None]
                       ELSE NoEntries],
                   r1.entries)
    IN  Loop(both,
             [k \in Range(both) |->
                 IF IndexChanged(ByName(m_objs, k), ByName(c_objs, k))
                    /\ ~metadata_table.mapping_only
                 THEN [entries |-> <<IndexEntry("remove_index", ByName(c_objs, k),
                                                tname, subject),
                                     IndexEntry("add_index", ByName(m_objs, k),
                                                tname, subject)>>,
                       error |-> None]
                 ELSE NoEntries],
             r2.entries)

\* the metadata and database tables of the matched table (s, tname)
MetadataTable(t) == metadata[TableKey(t[1], t[2])]

ConnTable(t) == db[t]

\* the pass after the table at the head of todo
NextTable == /\ todo' = Tail(todo)
             /\ pc' = AfterTables(Tail(todo))

Raise(entries, exception) ==
    /\ diffs' = entries
    /\ error' = exception
    /\ pc' = "error"
    /\ todo' = todo

\* _compare_columns of autogenerate.py on the next matched table: the column
\* loops, then the index comparison
ModuleCompareColumns ==
    /\ pc = "columns"
    /\ impl = "module"
    /\ LET t == Head(todo)
           mt == MetadataTable(t)
           ct == ConnTable(t)
       IN  \E adds \in Orders(ColNames(mt) \ ColNames(ct)),
              removes \in Orders(ColNames(ct) \ ColNames(mt)),
              both \in Orders(ColNames(mt) \cap ColNames(ct)),
              outcome \in MissingTableOutcomes :
              LET cols == ColumnLoops(t[1], t[2], mt, ct, adds, removes, both)
                  conn_indexes == GetIndexes(t[2], outcome)
                  m_keys == NamesOf(mt.indexes)
                  c_keys == NamesOf(conn_indexes.records)
              IN  IF cols.error # None
                  THEN /\ Raise(cols.entries, cols.error)
                       /\ no_such_table' = no_such_table
                  ELSE IF conn_indexes.error # None
                  THEN /\ Raise(cols.entries, conn_indexes.error)
                       /\ no_such_table' = no_such_table \cup {t}
                  ELSE \E iadds \in Orders(m_keys \ c_keys),
                          iremoves \in Orders(c_keys \ m_keys),
                          iboth \in Orders(m_keys \cap c_keys) :
                          /\ diffs' = IndexLoops(t[2], t, mt, mt.indexes,
                                                 conn_indexes.records, iadds, iremoves,
                                                 iboth, cols.entries).entries
                          /\ error' = error
                          /\ no_such_table' = no_such_table
                          /\ NextTable
    /\ UNCHANGED <<removal_metadata, call, first_diffs, imports, template_args, impl, entry, opts, metadata, sorted_tables, db, conn_table_names,
                   metadata_table_names, remove_tables, c_uniques,
                   upgrades, downgrades>>

\* the table-level filter call of _compare_tables (compare.py) and, when the
\* table is accepted, _compare_columns
PackageCompareColumns ==
    /\ pc = "columns"
    /\ impl = "package"
    /\ LET t == Head(todo)
           mt == MetadataTable(t)
           ct == ConnTable(t)
       IN  IF ~RunFilters(mt, t[2], "table", FALSE, ct, opts.object_filters)
           THEN /\ NextTable
                /\ UNCHANGED <<diffs, error>>
           ELSE \E removes \in Orders(ColNames(ct) \ ColNames(mt)) :
                   LET cols == ColumnLoops(t[1], t[2], mt, ct,
                                           SortedNames(ColNames(mt) \ ColNames(ct)),
                                           removes,
                                           SortedNames(ColNames(mt) \cap ColNames(ct)))
                   IN  IF cols.error # None THEN Raise(cols.entries, cols.error)
                       ELSE /\ diffs' = cols.entries
                            /\ error' = error
                            /\ todo' = todo
                            /\ pc' = "uniques"
    /\ UNCHANGED <<removal_metadata, no_such_table, call, first_diffs, imports, template_args, impl, entry, opts, metadata, sorted_tables, db, conn_table_names,
                   metadata_table_names, remove_tables, c_uniques,
                   upgrades, downgrades>>

\* _make_index and _make_unique_constraint look the columns up in conn_table
MakeRaises(records, conn_table) ==
    \E r \in records : \E i \in 1..Len(r.column_names) :
        r.column_names[i] \notin ColNames(conn_table)

\* the unique constraints of the model that have a name
NamedUniques(metadata_table) == {u \in metadata_table.uniques : u.name # None}

\* the three loops of _compare_uniques, on diffs
UniqueLoops(tname, subject, m_objs, c_objs, adds, removes, both) ==
    LET r1 == Loop(adds,
                   [k \in Range(adds) |->
                       [entries |-> <<ConstraintEntry("add_constraint", ByName(m_objs, k),
                                                      tname, subject)>>,
                        error |-> None]],
                   diffs)
        r2 == Loop(removes,
                   [k \in Range(removes) |->
                       [entries |-> <<ConstraintEntry("remove_constraint",
                                                      ByName(c_objs, k), tname, subject)>>,
                        error |-> None]],
                   r1.entries)
    IN  Loop(both,
             [k \in Range(both) |->
                 IF ByName(m_objs, k).column_names # ByName(c_objs, k).column_names
                 THEN [entries |-> <<ConstraintEntry("remove_constraint",
                                                     ByName(c_objs, k), tname, subject),
                                     ConstraintEntry("add_constraint",
                                                     ByName(m_objs, k), tname, subject)>>,
                       error |-> None]
                 ELSE NoEntries],
             r2.entries)

\* the listing is tried whatever the adapter supports
UniqueReflectionAlways == TRUE

\* hasattr(inspector, "get_unique_constraints") and the call does not raise
\* NotImplementedError
UniqueReflection == opts.unique_reflection = "supported"

\* _compare_uniques of compare.py on the table at the head of todo
CompareUniques ==
    /\ pc = "uniques"
    /\ LET t == Head(todo)
           mt == MetadataTable(t)
           ct == ConnTable(t)
           m_objs == NamedUniques(mt)
           m_keys == NamesOf(m_objs)
       IN  IF ~UniqueReflection
           THEN /\ c_uniques' = NoKeys
                /\ pc' = "indexes"
                /\ UNCHANGED <<diffs, error, todo, no_such_table>>
           ELSE \E outcome \in MissingTableOutcomes :
                LET conn_uniques == GetUniqueConstraints(t[2], outcome).records
                    c_objs == {u \in conn_uniques : u.name # None}
                    c_keys == NamesOf(c_objs)
                IN  /\ no_such_table' =
                          IF GetUniqueConstraints(t[2], outcome).error = NoSuchTableError
                          THEN no_such_table \cup {t} ELSE no_such_table
                    /\ IF MakeRaises(c_objs, ct)
                       THEN /\ Raise(diffs, KeyError)
                            /\ c_uniques' = c_uniques
                       ELSE \E adds \in Orders(m_keys \ c_keys),
                               removes \in Orders(c_keys \ m_keys),
                               both \in Orders(m_keys \cap c_keys) :
                               /\ diffs' = UniqueLoops(t[2], t, m_objs, c_objs,
                                                       adds, removes, both).entries
                               /\ c_uniques' = Keys(c_keys)
                               /\ pc' = "indexes"
                               /\ UNCHANGED <<error, todo>>
    /\ UNCHANGED <<removal_metadata, call, first_diffs, imports, template_args, impl, entry, opts, metadata, sorted_tables, db, conn_table_names,
                   metadata_table_names, remove_tables, upgrades, downgrades>>

\* the index names compared with the unique-constraint names left in
DeduplicateNothing(keys, c_uniques_keys) == keys

\* set(objs).difference(c_uniques_keys)
Deduplicate(keys, c_uniques_keys) == keys \ c_uniques_keys

\* _compare_indexes of compare.py on the table at the head of todo
CompareIndexes ==
    /\ pc = "indexes"
    /\ LET t == Head(todo)
           mt == MetadataTable(t)
           ct == ConnTable(t)
       IN  \E outcome \in MissingTableOutcomes :
           LET c_objs == GetIndexes(t[2], outcome).records
               m_objs == mt.indexes
               c_uniques_keys == IF c_uniques = NoKeys THEN NamesOf(NamedUniques(mt))
                                 ELSE c_uniques.keys
               c_keys == Deduplicate(NamesOf(c_objs), c_uniques_keys)
               m_keys == Deduplicate(NamesOf(m_objs), c_uniques_keys)
           IN  /\ no_such_table' =
                     IF GetIndexes(t[2], outcome).error = NoSuchTableError
                     THEN no_such_table \cup {t} ELSE no_such_table
               /\ IF MakeRaises(c_objs, ct)
                  THEN Raise(diffs, KeyError)
                  ELSE \E adds \in Orders(m_keys \ c_keys),
                          removes \in Orders(c_keys \ m_keys),
                          both \in Orders(m_keys \cap c_keys) :
                          /\ diffs' = IndexLoops(t[2], t, mt, m_objs, c_objs, adds,
                                                 removes, both, diffs).entries
                          /\ error' = error
                          /\ NextTable
    /\ c_uniques' = NoKeys
    /\ UNCHANGED <<removal_metadata, call, first_diffs, imports, template_args, impl, entry, opts, metadata, sorted_tables, db, conn_table_names,
                   metadata_table_names, remove_tables, upgrades, downgrades>>

-----------------------------------------------------------------------------
(* Operation renderer (autogenerate.py) *)

Put(f, k, v) == [x \in DOMAIN f \cup {k} |-> IF x = k THEN v ELSE f[x]]

SetDefault(f, k, v) == IF k \in DOMAIN f THEN f ELSE Put(f, k, v)

Pop(f, k) == [x \in DOMAIN f \ {k} |-> f[x]]

\* _arg_struct: the (old, new) keyword names of a sub-change
OldKw(kind) == CASE kind = "modify_type" -> "existing_type"
                 [] kind = "modify_nullable" -> "existing_nullable"
                 [] kind = "modify_default" -> "existing_server_default"

NewKw(kind) == CASE kind = "modify_type" -> "type_"
                 [] kind = "modify_nullable" -> "nullable"
                 [] kind = "modify_default" -> "server_default"

\* the old and new keywords set the same way in both directions
ModifyStepOneWay(updown, diff, kw) ==
    LET ctx == LET RECURSIVE Take(_, _)
                   Take(keys, acc) ==
                       IF keys = <<>> THEN acc
                       ELSE Take(Tail(keys),
                                 IF Head(keys) \in DOMAIN diff.kw
                                 THEN SetDefault(acc, Head(keys), diff.kw[Head(keys)])
                                 ELSE acc)
               IN  Take(<<"existing_type", "existing_nullable",
                          "existing_server_default">>, kw)
    IN  Put(Put(ctx, NewKw(diff.kind), diff.new), OldKw(diff.kind), diff.old)

\* one round of the loop of _invoke_modify_command: the existing_* context of
\* the sub-change is taken over where kw has none yet, then the old and new
\* keywords are set for the direction
ModifyStep(updown, diff, kw) ==
    LET ctx == LET RECURSIVE Take(_, _)
                   Take(keys, acc) ==
                       IF keys = <<>> THEN acc
                       ELSE Take(Tail(keys),
                                 IF Head(keys) \in DOMAIN diff.kw
                                 THEN SetDefault(acc, Head(keys), diff.kw[Head(keys)])
                                 ELSE acc)
               IN  Take(<<"existing_type", "existing_nullable",
                          "existing_server_default">>, kw)
    IN  IF updown = "upgrade"
        THEN Put(Put(ctx, NewKw(diff.kind), diff.new), OldKw(diff.kind), diff.old)
        ELSE Put(Put(ctx, NewKw(diff.kind), diff.old), OldKw(diff.kind), diff.new)

\* kw after the loop of _invoke_modify_command over the sub-changes args
RECURSIVE ModifyKw(_, _, _)
ModifyKw(updown, args, kw) ==
    IF args = <<>> THEN kw
    ELSE ModifyKw(updown, Tail(args), ModifyStep(updown, Head(args), kw))

\* _repr_type with the sqlalchemy module prefix
ReprType(type_) == [prefix |-> "sa.", cls |-> type_.cls, args |-> type_.args]

\* Python truth of a default value
Truthy(default) == default # NoneV /\ ~(default.k = "str" /\ default.s = <<>>)

\* _modify_col: the keyword arguments of the alter_column instruction
ModifyCol(tname, cname, kw, schema) ==
    LET a1 == Put(<<>>, "existing_type", ReprType(kw["existing_type"]))
        a2 == IF "server_default" \in DOMAIN kw
              THEN Put(a1, "server_default", RenderServerDefault(kw["server_default"]))
              ELSE a1
        a3 == IF "type_" \in DOMAIN kw THEN Put(a2, "type_", ReprType(kw["type_"])) ELSE a2
        a4 == IF "nullable" \in DOMAIN kw THEN Put(a3, "nullable", kw["nullable"]) ELSE a3
        a5 == IF "existing_nullable" \in DOMAIN kw
              THEN Put(a4, "existing_nullable", kw["existing_nullable"])
              ELSE a4
        a6 == IF "existing_server_default" \in DOMAIN kw
                 /\ Truthy(kw["existing_server_default"])
              THEN Put(a5, "existing_server_default",
                       RenderServerDefault(kw["existing_server_default"]))
              ELSE a5
    IN  [op |-> "alter_column", tname |-> tname, cname |-> cname, args |-> a6,
         schema |-> schema]

\* _invoke_modify_command
InvokeModifyCommand(updown, args) ==
    LET kw == ModifyKw(updown, args, <<>>)
        kw1 == IF "nullable" \in DOMAIN kw THEN Pop(kw, "existing_nullable") ELSE kw
        kw2 == IF "server_default" \in DOMAIN kw THEN Pop(kw1, "existing_server_default")
               ELSE kw1
    IN  ModifyCol(args[1].tname, args[1].cname, kw2, args[1].schema)

\* the built-in rendering of a column
BuiltinColumn(column) ==
    [k |-> "Column", name |-> column.name, type |-> ReprType(column.type),
     server_default |-> IF Truthy(column.server_default)
                        THEN RenderServerDefault(column.server_default) ELSE NoneV,
     nullable |-> column.nullable]

\* _render_column
RenderColumn(column) ==
    LET rendered == UserDefinedRender("column", column)
    IN  IF rendered # NotRendered THEN rendered ELSE BuiltinColumn(column)

\* _render_unique_constraint
RenderUniqueConstraint(constraint) ==
    LET rendered == UserDefinedRender("unique", constraint)
    IN  IF rendered # NotRendered THEN rendered
        ELSE [k |-> "UniqueConstraint", cols |-> constraint.column_names,
              name |-> constraint.name]

\* _render_foreign_key, of the foreign key to the table with key refkey
RenderForeignKey(refkey) ==
    LET rendered == UserDefinedRender("foreign_key", refkey)
    IN  IF rendered # NotRendered THEN rendered
        ELSE [k |-> "ForeignKeyConstraint", refcols |-> refkey]

\* _add_table, _drop_table, _add_column, _drop_column, _add_index, _drop_index
AddTableCmd(table) ==
    [op |-> "create_table", tablename |-> table.name,
     columns |-> [i \in 1..Len(table.cols) |-> RenderColumn(table.cols[i])],
     constraints |-> {RenderUniqueConstraint(u) : u \in table.uniques}
                        \cup {RenderForeignKey(r) : r \in table.fks},
     schema |-> table.schema]

DropTableCmd(table) == [op |-> "drop_table", tname |-> table.name, schema |-> table.schema]

AddColumnCmd(schema, tname, column) ==
    [op |-> "add_column", tname |-> tname, column |-> RenderColumn(column),
     schema |-> schema]

DropColumnCmd(schema, tname, column) ==
    [op |-> "drop_column", tname |-> tname, cname |-> column.name, schema |-> schema]

AddIndexCmd(index) ==
    [op |-> "create_index", name |-> index.name, table |-> index.table,
     columns |-> index.column_names, unique |-> index.unique]

DropIndexCmd(index) == [op |-> "drop_index", name |-> index.name, table |-> index.table]

\* cmd_type.split("_")
AddDrop(kind) == IF kind \in {"add_table", "add_column", "add_index", "add_constraint"}
                 THEN "add" ELSE "remove"

CmdType(kind) ==
    CASE kind \in {"add_table", "remove_table"} -> "table"
      [] kind \in {"add_column", "remove_column"} -> "column"
      [] kind \in {"add_index", "remove_index"} -> "index"
      [] kind \in {"add_constraint", "remove_constraint"} -> "constraint"

\* _invoke_adddrop_command: the add or the drop callable of the entry's kind;
\* _commands has the keys table, column and index, any other raises KeyError
InvokeAddDropCommand(updown, args) ==
    LET add == (updown = "upgrade" /\ AddDrop(args.kind) = "add")
               \/ (updown = "downgrade" /\ AddDrop(args.kind) = "remove")
    IN  CASE CmdType(args.kind) = "table" ->
                IF add THEN AddTableCmd(args.table) ELSE DropTableCmd(args.table)
          [] CmdType(args.kind) = "column" ->
                IF add THEN AddColumnCmd(args.schema, args.tname, args.column)
                ELSE DropColumnCmd(args.schema, args.tname, args.column)
          [] CmdType(args.kind) = "index" ->
                IF add THEN AddIndexCmd(args.index) ELSE DropIndexCmd(args.index)
          [] OTHER -> [op |-> KeyError]

\* _invoke_command: a tuple is an add/drop entry, a list a compound entry
InvokeCommand(updown, args) ==
    IF args.kind = "modify" THEN InvokeModifyCommand(updown, args.subs)
    ELSE InvokeAddDropCommand(updown, args)

Reversed(s) == [i \in 1..Len(s) |-> s[Len(s) + 1 - i]]

Pass == [op |-> "pass"]

\* the change list walked forward
DowngradeOrderForward(ds) == ds

\* the sequence the downgrade block walks
DowngradeOrder(ds) == Reversed(ds)

\* "if not buf: buf = ['pass']" left out
BufAsIs(buf) == buf

\* "if not buf: buf = ['pass']"
Buf(buf) == IF buf = <<>> THEN <<Pass>> ELSE buf

HeaderMarker == "### commands auto generated by Alembic - please adjust! ###"

EndMarker == "### end Alembic commands ###"

Margin == "    "

\* _indent: a text is its sequence of lines, each a margin and a body; the
\* markers are put around the instructions, every line start gets the margin,
\* and strip() takes the margin of the first line away again
Indent(text) ==
    LET lines == <<HeaderMarker>> \o text \o <<EndMarker>>
    IN  [i \in 1..Len(lines) |->
            [margin |-> IF i = 1 THEN "" ELSE Margin, body |-> lines[i]]]

\* _produce_upgrade_commands, and the template argument written from it
ProduceUpgradeCommands ==
    /\ pc = "upgrade"
    /\ upgrades' = Buf([i \in 1..Len(diffs) |-> InvokeCommand("upgrade", diffs[i])])
    /\ template_args' = [template_args EXCEPT !.upgrades = Indent(upgrades')]
    /\ pc' = "downgrade"
    /\ UNCHANGED <<removal_metadata, no_such_table, call, first_diffs, imports, impl, entry, opts, metadata, sorted_tables, db, conn_table_names,
                   metadata_table_names, remove_tables, diffs, todo, c_uniques,
                   downgrades, error>>

\* _produce_downgrade_commands
ProduceDowngradeCommands ==
    /\ pc = "downgrade"
    /\ downgrades' = Buf([i \in 1..Len(diffs) |->
                              InvokeCommand("downgrade", DowngradeOrder(diffs)[i])])
    /\ template_args' = [template_args EXCEPT !.downgrades = Indent(downgrades')]
    /\ imports' = <<>>
    /\ pc' = "done"
    /\ UNCHANGED <<removal_metadata, no_such_table, call, first_diffs, impl, entry, opts, metadata, sorted_tables, db, conn_table_names,
                   metadata_table_names, remove_tables, diffs, todo, c_uniques,
                   upgrades, error>>

Next ==
    \/ RaiseCommandError
    \/ ProduceNetChanges
    \/ CompareTablesAdd
    \/ CompareTablesRemove
    \/ ModuleCompareColumns
    \/ PackageCompareColumns
    \/ CompareUniques
    \/ CompareIndexes
    \/ ProduceUpgradeCommands
    \/ ProduceDowngradeCommands

Spec == Init /\ [][Next]_vars

\* a second call of the same entry point with the same context, metadata and
\* database: every value a pass writes starts again as a fresh call starts it
RunPassAgain ==
    /\ pc = "done"
    /\ first_diffs = <<>>
    /\ first_diffs' = <<diffs>>
    /\ pc' = "start"
    /\ conn_table_names' = {}
    /\ metadata_table_names' = <<>>
    /\ remove_tables' = FALSE
    /\ diffs' = <<>>
    /\ todo' = <<>>
    /\ c_uniques' = NoKeys
    /\ upgrades' = <<>>
    /\ downgrades' = <<>>
    /\ imports' = None
    /\ template_args' = [upgrades |-> None, downgrades |-> None]
    /\ no_such_table' = {}
    /\ removal_metadata' = <<>>
    /\ UNCHANGED <<call, impl, entry, opts, metadata, sorted_tables, db, error>>

NextTwoPasses ==
    \/ Next
    \/ RunPassAgain

TwoPasses == Init /\ [][NextTwoPasses]_vars

-----------------------------------------------------------------------------
(* A comparator called on its own with a column pair and an empty list, as  *)
(* the tests call _compare_type                                             *)

CallTypes == {INTEGER, Integer, VARCHAR(50), VARCHAR(100), NullType, Boolean,
              SqlBOOLEAN, TEXT, MEDIUMTEXT, MyType}

CallDefaults == {NoneV, DefaultX, DefaultQuotedX, Default0}

CallColumns == {Column("x", t, n, d) : t \in CallTypes, n \in BOOLEAN, d \in CallDefaults}

Comparators == {"_compare_type", "_compare_nullable", "_compare_server_default"}

InitCalls ==
    /\ impl \in {"module", "package"}
    /\ entry \in Comparators
    /\ opts = DefaultOpts
    /\ metadata = MetaData({})
    /\ sorted_tables = <<>>
    /\ db = [t \in {<<None, "alembic_version">>} |-> AlembicVersion]
    /\ pc = "call"
    /\ conn_table_names = {}
    /\ metadata_table_names = <<>>
    /\ remove_tables = FALSE
    /\ diffs = <<>>
    /\ todo = <<>>
    /\ c_uniques = NoKeys
    /\ upgrades = <<>>
    /\ downgrades = <<>>
    /\ imports = None
    /\ template_args = [upgrades |-> None, downgrades |-> None]
    /\ first_diffs = <<>>
    /\ call \in [conn_col : CallColumns, metadata_col : CallColumns,
                  mapping_only : BOOLEAN]
    /\ no_such_table = {}
    /\ removal_metadata = <<>>
    /\ error = None

\* the comparator entry names, applied to the call's arguments
Comparator(conn_col, metadata_col, mapping_only) ==
    CASE entry = "_compare_type" ->
            CompareType(None, "t", "x", conn_col, metadata_col, mapping_only)
      [] entry = "_compare_nullable" ->
            CompareNullable(None, "t", "x", conn_col, metadata_col, mapping_only)
      [] entry = "_compare_server_default" ->
            CompareServerDefault(None, "t", "x", conn_col, metadata_col, mapping_only)

\* the call returns, its sub-changes appended to the list it was given, or
\* raises
CallComparator ==
    /\ pc = "call"
    /\ LET r == Comparator(ConnCol(call.conn_col), call.metadata_col, call.mapping_only)
       IN  /\ diffs' = diffs \o r.entries
           /\ error' = r.error
           /\ pc' = IF r.error = None THEN "returned" ELSE "error"
    /\ UNCHANGED <<removal_metadata, no_such_table, call, first_diffs, imports, template_args, impl, entry, opts, metadata,
                   sorted_tables, db, conn_table_names, metadata_table_names,
                   remove_tables, todo, c_uniques, upgrades, downgrades>>

NextCalls ==
    \/ CallComparator

Calls == InitCalls /\ [][NextCalls]_vars

-----------------------------------------------------------------------------
(* Properties *)

\* the comparison loops are over: the change list is complete
DiffPassEnded == pc \in {"upgrade", "downgrade", "done"}

\* the table an entry is about, as <<schema, name>>
EntryTable(e) ==
    CASE e.kind \in {"add_table", "remove_table"} -> <<e.table.schema, e.table.name>>
      [] e.kind \in {"add_column", "remove_column"} -> <<e.schema, e.tname>>
      [] e.kind = "modify" -> <<e.subs[1].schema, e.subs[1].tname>>
      [] OTHER -> e.subject

DesiredIds == {<<metadata[k].schema, metadata[k].name>> : k \in DOMAIN metadata}

LiveIds == DOMAIN db \ {<<None, "alembic_version">>}

\* the desired and the live schema hold the same tables with the same
\* columns, indexes and unique constraints, and the pass looks at all of them
IdenticalSnapshots ==
    /\ DesiredIds = LiveIds
    /\ \A t \in DesiredIds :
          /\ MetadataTable(t).cols = db[t].cols
          /\ MetadataTable(t).indexes = db[t].indexes
          /\ MetadataTable(t).uniques = db[t].uniques
    /\ \A t \in DesiredIds : t[1] \in Schemas

\* C1 (idempotence): a diff pass on identical desired and live schemas ends,
\* without an exception, with an empty change list
C1_Idempotence ==
    IdenticalSnapshots => /\ pc # "error"
                          /\ diffs = <<>>

\* the sub-changes the column comparators detect between a live and a desired
\* column, from the columns' attributes
DetectedKinds(conn_col, metadata_col) ==
    {k \in {"modify_type"} :
        /\ conn_col.type.affinity # "NullType"
        /\ metadata_col.type.affinity # "NullType"
        /\ Compare(conn_col.type, metadata_col.type).isdiff}
    \cup {k \in {"modify_nullable"} : conn_col.nullable # metadata_col.nullable}
    \cup {k \in {"modify_default"} :
            /\ ~(conn_col.server_default = NoneV /\ metadata_col.server_default = NoneV)
            /\ RenderServerDefault(conn_col.server_default)
                  # RenderServerDefault(metadata_col.server_default)}

CompoundAt(i) == diffs[i].kind = "modify"

SubKinds(e) == {e.subs[n].kind : n \in 1..Len(e.subs)}

\* the column (table, cname) was compared by a pass that ended, and neither
\* the reference-only flag nor a filter kept its changes out
ColumnCompared(t, cname) ==
    /\ DiffPassEnded
    /\ t \in ExistingTables
    /\ cname \in ColNames(MetadataTable(t)) \cap ColNames(db[t])
    /\ ~MetadataTable(t).mapping_only
    /\ impl = "package" =>
          /\ RunFilters(MetadataTable(t), t[2], "table", FALSE, db[t], opts.object_filters)
          /\ RunFilters(Col(MetadataTable(t), cname), cname, "column", FALSE,
                        Col(db[t], cname), opts.object_filters)

\* C2 (compound aggregation): every compound entry is non-empty, is about one
\* column of a table present on both sides, holds exactly the sub-changes
\* detected for that column, and is the only compound entry for the column; a
\* compared column with detected sub-changes has its entry
C2_CompoundAggregation ==
    /\ \A i \in 1..Len(diffs) : CompoundAt(i) =>
          LET e == diffs[i]
              t == EntryTable(e)
              cname == e.subs[1].cname
          IN  /\ e.subs # <<>>
              /\ \A n \in 1..Len(e.subs) :
                    <<e.subs[n].schema, e.subs[n].tname, e.subs[n].cname>>
                       = <<t[1], t[2], cname>>
              /\ Cardinality(SubKinds(e)) = Len(e.subs)
              /\ t \in DesiredIds \cap DOMAIN db
              /\ SubKinds(e) = DetectedKinds(Col(db[t], cname), Col(MetadataTable(t), cname))
              /\ \A j \in 1..Len(diffs) :
                    (CompoundAt(j) /\ EntryTable(diffs[j]) = t
                        /\ diffs[j].subs[1].cname = cname) => j = i
    /\ \A t \in DesiredIds \cap DOMAIN db :
          \A cname \in ColNames(MetadataTable(t)) \cap ColNames(db[t]) :
             (ColumnCompared(t, cname)
                /\ DetectedKinds(Col(db[t], cname), Col(MetadataTable(t), cname)) # {})
             => \E i \in 1..Len(diffs) :
                   /\ CompoundAt(i)
                   /\ EntryTable(diffs[i]) = t
                   /\ diffs[i].subs[1].cname = cname

\* a pass ended with a compound entry that bundles a type, a nullable and a
\* default change
C2_Witness ==
    /\ DiffPassEnded
    /\ \E i \in 1..Len(diffs) :
          /\ CompoundAt(i)
          /\ SubKinds(diffs[i]) = {"modify_type", "modify_nullable", "modify_default"}

\* what the renderer emits for a keyword value of a sub-change
Emitted(kind, value) ==
    CASE kind = "modify_type" -> ReprType(value)
      [] kind = "modify_nullable" -> value
      [] kind = "modify_default" -> RenderServerDefault(value)

\* both blocks are rendered
Rendered == pc = "done" /\ impl = "module" /\ entry = "_produce_migration_diffs"

\* C3 (symmetry): for every sub-change of every compound entry, the new value
\* of the revert direction is the old value of the apply direction and the
\* new value of the apply direction is the old value of the revert direction;
\* the alter instructions of the two blocks emit these new values
C3_Symmetry ==
    \A i \in 1..Len(diffs) : CompoundAt(i) =>
       LET e == diffs[i]
           up == ModifyKw("upgrade", e.subs, <<>>)
           down == ModifyKw("downgrade", e.subs, <<>>)
       IN  \A n \in 1..Len(e.subs) :
              LET k == e.subs[n].kind IN
              /\ down[NewKw(k)] = e.subs[n].old
              /\ up[OldKw(k)] = e.subs[n].old
              /\ up[NewKw(k)] = e.subs[n].new
              /\ down[OldKw(k)] = e.subs[n].new
              /\ Rendered =>
                    /\ upgrades[i].args[NewKw(k)] = Emitted(k, down[OldKw(k)])
                    /\ downgrades[Len(diffs) + 1 - i].args[NewKw(k)]
                          = Emitted(k, up[OldKw(k)])

\* both blocks are rendered from a change list that holds a compound entry
\* with a type, a nullable and a default change
C3_Witness ==
    /\ Rendered
    /\ \E i \in 1..Len(diffs) :
          /\ CompoundAt(i)
          /\ SubKinds(diffs[i]) = {"modify_type", "modify_nullable", "modify_default"}

\* the column a rendered column is about: the override of the model renders
\* a column as its name
RenderedColumnName(column) ==
    IF column.k = "custom" THEN column.text ELSE column.name

\* the object an instruction acts on and whether it creates or removes it
InstrTarget(instr) ==
    CASE instr.op = "create_table" -> <<"table", "create", instr.schema, instr.tablename, None>>
      [] instr.op = "drop_table" -> <<"table", "drop", instr.schema, instr.tname, None>>
      [] instr.op = "add_column" ->
            <<"column", "create", instr.schema, instr.tname,
              RenderedColumnName(instr.column)>>
      [] instr.op = "drop_column" -> <<"column", "drop", instr.schema, instr.tname, instr.cname>>
      [] instr.op = "create_index" -> <<"index", "create", None, instr.table, instr.name>>
      [] instr.op = "drop_index" -> <<"index", "drop", None, instr.table, instr.name>>
      [] instr.op = "alter_column" -> <<"column", "alter", instr.schema, instr.tname, instr.cname>>
      [] OTHER -> <<"pass", "pass", None, None, None>>

\* the object a change entry is about, and what the instruction rendered from
\* it in the given direction does to the object
EntryTarget(updown, e) ==
    LET act == IF (updown = "upgrade") = (AddDrop(e.kind) = "add") THEN "create"
               ELSE "drop"
    IN  CASE e.kind \in {"add_table", "remove_table"} ->
                <<"table", act, e.table.schema, e.table.name, None>>
          [] e.kind \in {"add_column", "remove_column"} ->
                <<"column", act, e.schema, e.tname, e.column.name>>
          [] e.kind \in {"add_index", "remove_index"} ->
                <<"index", act, None, e.index.table, e.index.name>>
          [] e.kind \in {"add_constraint", "remove_constraint"} ->
                <<"constraint", act, None, e.constraint.table, e.constraint.name>>
          [] e.kind = "modify" ->
                <<"column", "alter", e.subs[1].schema, e.subs[1].tname, e.subs[1].cname>>

\* C4 (block order): the apply block holds one instruction per entry, the
\* k-th made from entry k; the revert block holds one instruction per entry,
\* the k-th made from entry n+1-k (positions counted from 1)
C4_BlockOrder ==
    (Rendered /\ diffs # <<>>) =>
       /\ Len(upgrades) = Len(diffs)
       /\ Len(downgrades) = Len(diffs)
       /\ \A k \in 1..Len(diffs) :
             /\ InstrTarget(upgrades[k]) = EntryTarget("upgrade", diffs[k])
             /\ InstrTarget(downgrades[k])
                   = EntryTarget("downgrade", diffs[Len(diffs) + 1 - k])

\* both blocks are rendered from a change list of at least three entries
\* whose first and last entries are about different objects
C4_Witness ==
    /\ Rendered
    /\ Len(diffs) >= 3
    /\ EntryTarget("upgrade", diffs[1]) # EntryTarget("upgrade", diffs[Len(diffs)])

EntriesOf(t) == {i \in 1..Len(diffs) : EntryTable(diffs[i]) = t}

\* C5 (reference-only suppression): a table of both schemas that the model
\* marks reference-only has no entry in the change list
C5_ReferenceOnlySuppression ==
    \A t \in DesiredIds \cap LiveIds :
        MetadataTable(t).mapping_only => EntriesOf(t) = {}

HasAddTable(t) ==
    \E i \in 1..Len(diffs) : diffs[i] = AddTableEntry(MetadataTable(t))

\* the first loop of _compare_tables is over, or an exception ended it
AddLoopOver == pc \notin {"start", "add_tables"}

AddLoopRaised == pc = "error" /\ todo = <<>> /\ error = KeyError

\* C6: once the tables only in the model are walked, each of them, in the
\* null or a named schema, has its add_table entry exactly when it is not
\* reference-only and the filters accept it; none of them raises
C6_AddTable ==
    AddLoopOver =>
       /\ ~AddLoopRaised
       /\ \A n \in 1..Len(DesiredOnly) :
             LET t == DesiredOnly[n] IN
             HasAddTable(t) <=>
                /\ ~MetadataTable(t).mapping_only
                /\ RunFilters(MetadataTable(t), t[2], "table", FALSE, None,
                              opts.object_filters)

\* the destructive-removal flag of the configuration
RemovalEnabled == entry = "_produce_migration_diffs" /\ opts.remove_tables = "1"

C8_CompareMetadataRemoves ==
    (entry = "compare_metadata" /\ pc = "done") =>
       \A t \in LiveOnly :
          \E i \in 1..Len(diffs) :
             /\ diffs[i].kind = "remove_table"
             /\ EntryTable(diffs[i]) = t
             /\ \A j \in 1..Len(diffs) :
                   /\ diffs[j].kind = "add_table" => j < i
                   /\ diffs[j].kind \notin {"add_table", "remove_table"} => i < j

\* position of an entry's kind in the pass order
PhaseRank(e) == CASE e.kind = "add_table" -> 0
                  [] e.kind = "remove_table" -> 1
                  [] OTHER -> 2

KindRank(e) == CASE e.kind = "add_column" -> 0
                 [] e.kind = "remove_column" -> 1
                 [] e.kind = "modify" -> 2
                 [] e.kind \in {"add_constraint", "remove_constraint"} -> 3
                 [] e.kind \in {"add_index", "remove_index"} -> 4
                 [] OTHER -> 0

\* table adds, then table removals, then the matched tables, each contiguous
\* and with its entries in the order column adds, column removals, compound
\* modifies, unique constraints, indexes
PassOrder ==
    \A i, j \in 1..Len(diffs) : i < j =>
       /\ PhaseRank(diffs[i]) <= PhaseRank(diffs[j])
       /\ (PhaseRank(diffs[i]) = 2 /\ EntryTable(diffs[i]) = EntryTable(diffs[j])) =>
             /\ KindRank(diffs[i]) <= KindRank(diffs[j])
             /\ \A m \in i..j : EntryTable(diffs[m]) = EntryTable(diffs[i])

\* the entries of matched tables, in list order, never go from one table to
\* a table that Less puts before it
MatchedAscending(Less(_, _)) ==
    \A i, j \in 1..Len(diffs) :
       (i < j /\ PhaseRank(diffs[i]) = 2) =>
          ~Less(EntryTable(diffs[j]), EntryTable(diffs[i]))

NameLess(t, u) == NameRank(t[2]) < NameRank(u[2])

KeyLess(t, u) == NameRank(TableKey(t[1], t[2])) < NameRank(TableKey(u[1], u[2]))

\* C9 as stated: the pass order, with the matched tables in ascending name
\* order (by the table's name, or by its schema-qualified name)
C9_PassOrderByName ==
    /\ PassOrder
    /\ MatchedAscending(NameLess) \/ MatchedAscending(KeyLess)

\* C9 (pass ordering): the pass order, with the matched tables in ascending
\* order of (schema, name), the null schema first
C9_PassOrder ==
    /\ PassOrder
    /\ MatchedAscending(TupleLess)

\* the change list holds entries of two matched tables, the first in the
\* null schema and the second in a named schema
C9_Witness ==
    \E i, j \in 1..Len(diffs) :
       /\ i < j
       /\ PhaseRank(diffs[i]) = 2
       /\ PhaseRank(diffs[j]) = 2
       /\ EntryTable(diffs[i])[1] = None
       /\ EntryTable(diffs[j])[1] # None

C11_ChildRemovedBeforeParent ==
    \A i, j \in 1..Len(diffs) :
       (/\ diffs[i].kind = "remove_table"
        /\ diffs[j].kind = "remove_table"
        /\ KeyOf(diffs[i].table) \in diffs[j].table.fks) => j < i

\* the names of the unique constraints and of the indexes that the adapter
\* reports for the table name of t
ReportedUniqueNames(t) ==
    {u.name : u \in {x \in GetUniqueConstraints(t[2], "empty").records : x.name # None}}

ReportedIndexNames(t) == NamesOf(GetIndexes(t[2], "empty").records)

IndexLevel(e) == e.kind \in {"add_index", "remove_index"}

ConstraintLevel(e) == e.kind \in {"add_constraint", "remove_constraint"}

\* C12 (dedup between unique constraints and indexes): for a unique
\* constraint name that the adapter also lists as an index, the change list
\* never holds both an index entry and a constraint entry of the table; and
\* where compare.py reads the unique constraints, no index entry of a table
\* bears the name of one of its live unique constraints
C12_UniqueIndexDedup ==
    /\ \A i, j \in 1..Len(diffs) :
          (/\ IndexLevel(diffs[i])
           /\ ConstraintLevel(diffs[j])
           /\ diffs[i].subject = diffs[j].subject
           /\ diffs[i].index.name = diffs[j].constraint.name)
          => diffs[i].index.name \notin
                ReportedUniqueNames(diffs[i].subject) \cap ReportedIndexNames(diffs[i].subject)
    /\ (impl = "package" /\ opts.unique_reflection = "supported") =>
          \A i \in 1..Len(diffs) :
             IndexLevel(diffs[i]) =>
                diffs[i].index.name \notin ReportedUniqueNames(diffs[i].subject)

\* the indexes of a table are compared, a unique constraint that the adapter
\* lists as an index too has a constraint entry, and another index of the
\* table has an index entry
C12_Witness ==
    /\ impl = "package"
    /\ pc = "done"
    /\ \E i, j \in 1..Len(diffs) :
          /\ ConstraintLevel(diffs[j])
          /\ diffs[j].constraint.name \in
                ReportedUniqueNames(diffs[j].subject) \cap ReportedIndexNames(diffs[j].subject)
          /\ IndexLevel(diffs[i])
          /\ diffs[i].subject = diffs[j].subject

NullAffinity(type) == type.affinity = "NullType"

\* a column of the matched table t, on both sides, one of whose two types
\* has no affinity
NullTypeColumn(t, cname) ==
    /\ t \in DesiredIds \cap DOMAIN db
    /\ cname \in ColNames(MetadataTable(t)) \cap ColNames(db[t])
    /\ \/ NullAffinity(Col(db[t], cname).type)
       \/ NullAffinity(Col(MetadataTable(t), cname).type)

\* C13 (null-affinity short-circuit): no type sub-change has a live or a
\* desired type without affinity, and a TypeError that ends the pass comes
\* from a column of the table under comparison whose two types both have an
\* affinity
C13_NullAffinityShortCircuit ==
    /\ \A i \in 1..Len(diffs) : CompoundAt(i) =>
          \A n \in 1..Len(diffs[i].subs) :
             diffs[i].subs[n].kind = "modify_type" =>
                /\ ~NullAffinity(diffs[i].subs[n].old)
                /\ ~NullAffinity(diffs[i].subs[n].new)
    /\ (pc = "error" /\ error = "TypeError") =>
          \E cname \in ColNames(MetadataTable(Head(todo))) \cap ColNames(db[Head(todo)]) :
             /\ ~NullTypeColumn(Head(todo), cname)
             /\ Compare(Col(db[Head(todo)], cname).type,
                        Col(MetadataTable(Head(todo)), cname).type).raised

\* a pass ended without an exception after comparing a column whose type has
\* no affinity on one side and is a CHAR without length on the other, with a
\* nullable change found on that column
C13_Witness ==
    /\ DiffPassEnded
    /\ \E t \in ExistingTables : \E cname \in {"x"} :
          /\ ColumnCompared(t, cname)
          /\ NullTypeColumn(t, cname)
          /\ CHAR0 \in {Col(db[t], cname).type, Col(MetadataTable(t), cname).type}
          /\ \E i \in 1..Len(diffs) :
                /\ CompoundAt(i)
                /\ EntryTable(diffs[i]) = t
                /\ diffs[i].subs[1].cname = cname
                /\ SubKinds(diffs[i]) = {"modify_nullable"}

\* nothing is written to template_args
NoOutputWritten == upgrades = <<>> /\ downgrades = <<>> /\ imports = None

\* C14: _produce_migration_diffs without target metadata raises CommandError
\* as its first step: no table name is read from the database or the model,
\* nothing is compared, and template_args is left as it was
C14_MissingMetadataFatal ==
    /\ (/\ entry = "_produce_migration_diffs"
        /\ opts.target_metadata = None
        /\ pc # "start") =>
          /\ pc = "error"
          /\ error = CommandError
    /\ error = CommandError =>
          /\ conn_table_names = {}
          /\ metadata_table_names = <<>>
          /\ diffs = <<>>
          /\ NoOutputWritten

\* the CommandError is raised on a database that holds a table to compare
C14_Witness ==
    /\ error = CommandError
    /\ pc = "error"
    /\ LiveIds # {}

\* every predicate of the configured chain accepts the call
Accepted(object_, name, type_, reflected, compare_to) ==
    \A fn \in Range(opts.object_filters) :
        ApplyFilter(fn, object_, name, type_, reflected, compare_to)

\* the matched table t, called with its desired and its live table
MatchedTableAccepted(t) == Accepted(MetadataTable(t), t[2], "table", FALSE, db[t])

SymbolAccepts(t) ==
    CASE opts.include_symbol = "IncludeSymbol" -> IncludeSymbol(t[2], t[1])
      [] opts.include_symbol = "IncludeOnlySchemaS" -> IncludeOnlySchemaS(t[2], t[1])
      [] OTHER -> TRUE

\* the table an instruction acts on, as <<schema, name>>
InstrTable(instr) == <<InstrTarget(instr)[3], InstrTarget(instr)[4]>>

\* the index record of an entry is an index of the table definition S
OwnIndex(e, S) ==
    \E x \in S : /\ x.name = e.index.name
                 /\ x.unique = e.index.unique
                 /\ x.column_names = e.index.column_names

\* C16 (include-symbol predicate): with a predicate configured, every change
\* entry and every rendered instruction is about a table the predicate
\* accepts, and the index entries of an accepted table come from the
\* table's own desired and live definitions, as they would without the
\* rejected tables
C16_IncludeSymbol ==
    opts.include_symbol # None =>
       /\ \A i \in 1..Len(diffs) : SymbolAccepts(EntryTable(diffs[i]))
       /\ \A instr \in Range(upgrades) \cup Range(downgrades) :
             instr.op # "pass" => SymbolAccepts(InstrTable(instr))
       /\ \A i \in 1..Len(diffs) :
             /\ diffs[i].kind = "remove_index" =>
                   OwnIndex(diffs[i], db[diffs[i].subject].indexes)
             /\ diffs[i].kind = "add_index" =>
                   OwnIndex(diffs[i], MetadataTable(diffs[i].subject).indexes)

\* the renderer, in the given direction, makes of the entry e an instruction
\* on e's object: a creation or a removal as EntryTarget says, an alteration
\* for a compound entry
RendersAs(updown, e) ==
    /\ InvokeCommand(updown, e).op # KeyError
    /\ InstrTarget(InvokeCommand(updown, e)) = EntryTarget(updown, e)

\* C17 (direction-aware rendering): every entry of a change list, of any of
\* the nine kinds, renders in the apply direction as the creation (Add) or
\* removal (Remove) of its table, column, index or unique constraint and in
\* the revert direction as the opposite; rendering never fails
C17_DirectionAwareRendering ==
    \A i \in 1..Len(diffs) :
       /\ RendersAs("upgrade", diffs[i])
       /\ RendersAs("downgrade", diffs[i])

\* the rendering r of an object is the override's result when it gives
\* one, and a built-in rendering otherwise
OverrideFirst(type_, object_, r) ==
    IF RenderItem(type_, object_) # NotRendered
    THEN r = RenderItem(type_, object_)
    ELSE r.k # "custom"

\* C18 (render override): with a render_item override configured, the
\* rendering of every added table, of every column of an added table or an
\* add_column instruction, of every unique constraint of an added table and
\* of every new server default is the override's result when it returns one
\* and the built-in rendering when it returns False
C18_RenderOverride ==
    (Rendered /\ opts.render_item # None) =>
       \A i \in 1..Len(diffs) :
          LET e == diffs[i]
              up == upgrades[i]
          IN  /\ e.kind = "add_table" =>
                    /\ RenderItem("table", e.table) # NotRendered =>
                          up = RenderItem("table", e.table)
                    /\ \A n \in 1..Len(e.table.cols) :
                          OverrideFirst("column", e.table.cols[n], up.columns[n])
                    /\ \A u \in e.table.uniques :
                          \E r \in up.constraints : OverrideFirst("unique", u, r)
              /\ e.kind = "add_column" => OverrideFirst("column", e.column, up.column)
              /\ (e.kind = "modify" /\ "server_default" \in DOMAIN up.args) =>
                    \A n \in 1..Len(e.subs) :
                       e.subs[n].kind = "modify_default" =>
                          OverrideFirst("server_default", e.subs[n].new,
                                        up.args["server_default"])

\* C19: when the change list is empty, the apply block and the revert block are
\* each exactly the header marker line, one "pass" line at the fixed margin and
\* the end marker line; a written block is never empty text
EmptyBlock ==
    <<[margin |-> "", body |-> HeaderMarker],
      [margin |-> Margin, body |-> Pass],
      [margin |-> Margin, body |-> EndMarker]>>

C19_EmptyChangeListPass ==
    /\ (Rendered /\ diffs = <<>>) =>
          /\ template_args.upgrades = EmptyBlock
          /\ template_args.downgrades = EmptyBlock
    /\ Rendered => template_args.upgrades # <<>> /\ template_args.downgrades # <<>>

C19_Witness ==
    Rendered /\ diffs = <<>> /\ DOMAIN db # {<<None, "alembic_version">>}
             /\ template_args.upgrades = EmptyBlock

\* C20: two diff passes on the same desired schema, live schema and
\* configuration end with the same change list, entry for entry
C20_Determinism ==
    (pc = "done" /\ first_diffs # <<>>) => diffs = first_diffs[1]

\* a call of _compare_type has returned
TypeCallReturned == entry = "_compare_type" /\ pc = "returned"

\* C21: a desired column of a decorator type that the dialect implements as
\* type X, compared with a live column of type X, gives no type change
C21_DecoratorTypeResolved ==
    (/\ TypeCallReturned
     /\ LoadDialectImpl(call.metadata_col.type) # call.metadata_col.type
     /\ call.conn_col.type = LoadDialectImpl(call.metadata_col.type))
    => diffs = <<>>

\* the normalized signature of a type, letter case ignored
Signature(t) == UpperSig(GetType(t))

\* a boolean type or the large-text alias
NeverDifferent(t) ==
    Signature(t) \in {[name |-> "BOOLEAN", args |-> <<>>],
                      [name |-> "MEDIUMTEXT", args |-> <<>>]}

\* C22 (type equivalence): two resolvable types are reported as different
\* exactly when their signatures differ, letter case ignored, and neither the
\* live nor the desired type is a boolean type or MEDIUMTEXT
C22_TypeEquivalence ==
    (/\ TypeCallReturned
     /\ ~call.mapping_only
     /\ call.conn_col.type.affinity # "NullType"
     /\ call.metadata_col.type.affinity # "NullType")
    => ((diffs # <<>>) <=>
          /\ Signature(call.conn_col.type) # Signature(call.metadata_col.type)
          /\ ~NeverDifferent(call.conn_col.type)
          /\ ~NeverDifferent(call.metadata_col.type))

\* the pass has compared the matched table t to the end
Matched(t) ==
    /\ pc = "done"
    /\ error = None
    /\ t \in conn_table_names \cap Range(metadata_table_names)
    /\ MatchedTableAccepted(t)

\* the positions of the entries of table t that are about the index, or the
\* unique constraint, of the given name
IndexEntriesAt(t, name) ==
    {i \in 1..Len(diffs) :
        IndexLevel(diffs[i]) /\ diffs[i].subject = t /\ diffs[i].index.name = name}

ConstraintEntriesAt(t, name) ==
    {i \in 1..Len(diffs) :
        ConstraintLevel(diffs[i]) /\ diffs[i].subject = t
        /\ diffs[i].constraint.name = name}

\* the entries at the positions P are one Remove entry immediately followed
\* by one Add entry
RemoveThenAdd(P, remove, add) ==
    \E i \in 1..Len(diffs) - 1 :
       /\ P = {i, i + 1}
       /\ diffs[i] = remove
       /\ diffs[i + 1] = add

\* names of the named unique constraints of a table definition
UniqueNames(table) == {u.name : u \in {x \in table.uniques : x.name # None}}

\* C23 (replacement pairs): for a matched table that is not reference-only,
\* a named unique constraint of both sides with different column lists, and
\* an index of both sides (left after the unique-constraint names are taken
\* out) with a different uniqueness flag or column list, has exactly two
\* entries, the Remove entry with the live definition immediately followed by
\* the Add entry with the desired definition; one that is equal on both sides
\* has no entry
C23_ReplacementPairs ==
    \A t \in DOMAIN db :
       (Matched(t) /\ ~MetadataTable(t).mapping_only) =>
          /\ (impl = "package" /\ opts.unique_reflection = "supported") =>
                \A k \in UniqueNames(MetadataTable(t)) \cap UniqueNames(db[t]) :
                   LET m == ByName(MetadataTable(t).uniques, k)
                       c == ByName(db[t].uniques, k)
                   IN  IF m.column_names # c.column_names
                       THEN RemoveThenAdd(ConstraintEntriesAt(t, k),
                               ConstraintEntry("remove_constraint", c, t[2], t),
                               ConstraintEntry("add_constraint", m, t[2], t))
                       ELSE ConstraintEntriesAt(t, k) = {}
          /\ \A k \in NamesOf(MetadataTable(t).indexes) \cap NamesOf(db[t].indexes) :
                (impl = "package" => k \notin UniqueNames(db[t])) =>
                   LET m == ByName(MetadataTable(t).indexes, k)
                       c == ByName(db[t].indexes, k)
                   IN  IF m.unique # c.unique \/ m.column_names # c.column_names
                       THEN RemoveThenAdd(IndexEntriesAt(t, k),
                               IndexEntry("remove_index", c, t[2], t),
                               IndexEntry("add_index", m, t[2], t))
                       ELSE IndexEntriesAt(t, k) = {}

\* a call of _compare_server_default has returned
DefaultCallReturned == entry = "_compare_server_default" /\ pc = "returned"

\* the live default of the called pair, as an entry carries it: the text the
\* adapter reports (autogenerate.py), its rendering (compare.py)
LiveDefault ==
    IF call.conn_col.server_default = NoneV THEN NoneV
    ELSE IF impl = "module" THEN call.conn_col.server_default.arg
    ELSE RenderServerDefault(call.conn_col.server_default)

\* the comparator, asked about the rendered defaults of the called pair
ReportedDifferent ==
    ImplCompareServerDefault(RenderServerDefault(call.metadata_col.server_default),
                             RenderServerDefault(ConnCol(call.conn_col).server_default))

\* C24 (default equivalence): for a column of a table that is not
\* reference-only, a default sub-change is appended exactly when a side has a
\* default and the comparator reports the rendered defaults as different; it
\* is the only entry appended, with the live default as old and the desired
\* default as new value; with no default on either side nothing is appended
C24_DefaultEquivalence ==
    (DefaultCallReturned /\ ~call.mapping_only) =>
       /\ (diffs # <<>>) <=>
             /\ (call.conn_col.server_default # NoneV
                   \/ call.metadata_col.server_default # NoneV)
             /\ ReportedDifferent
       /\ diffs # <<>> =>
             /\ Len(diffs) = 1
             /\ diffs[1].kind = "modify_default"
             /\ diffs[1].old = LiveDefault
             /\ diffs[1].new = call.metadata_col.server_default
       /\ (call.conn_col.server_default = NoneV
             /\ call.metadata_col.server_default = NoneV) => diffs = <<>>

\* a default sub-change was appended for a pair with two different defaults
C24_Witness ==
    /\ DefaultCallReturned
    /\ ~call.mapping_only
    /\ call.conn_col.server_default # NoneV
    /\ call.metadata_col.server_default # NoneV
    /\ diffs # <<>>
    /\ diffs[1].old # diffs[1].new

\* the live column a compound entry is about, as the comparators were given it
LiveColumnOf(e) == ConnCol(Col(db[EntryTable(e)], e.subs[1].cname))

\* the sub-change carries the live column's values of the two attributes it
\* does not change, and nothing else
CarriesContext(sub, live) ==
    CASE sub.kind = "modify_type" ->
            sub.kw = [existing_nullable |-> live.nullable,
                      existing_server_default |-> live.server_default]
      [] sub.kind = "modify_nullable" ->
            sub.kw = [existing_type |-> live.type,
                      existing_server_default |-> live.server_default]
      [] sub.kind = "modify_default" ->
            sub.kw = [existing_nullable |-> live.nullable,
                      existing_type |-> live.type]

\* C27 (carried context): every sub-change of a compound entry carries the
\* live column's values of the attributes it does not change, and every alter
\* instruction, of either block, has an existing-type argument, the rendering
\* of the live or of the desired type of its column
C27_CarriedContext ==
    /\ \A i \in 1..Len(diffs) :
          diffs[i].kind = "modify" =>
             \A k \in 1..Len(diffs[i].subs) :
                CarriesContext(diffs[i].subs[k], LiveColumnOf(diffs[i]))
    /\ Rendered =>
          \A i \in 1..Len(diffs) :
             diffs[i].kind = "modify" =>
                LET up == upgrades[i]
                    down == downgrades[Len(diffs) + 1 - i]
                    cname == diffs[i].subs[1].cname
                    types == {ReprType(LiveColumnOf(diffs[i]).type),
                              ReprType(Col(MetadataTable(EntryTable(diffs[i])), cname).type)}
                IN  /\ up.op = "alter_column"
                    /\ down.op = "alter_column"
                    /\ "existing_type" \in DOMAIN up.args
                    /\ "existing_type" \in DOMAIN down.args
                    /\ up.args["existing_type"] \in types
                    /\ down.args["existing_type"] \in types

\* both blocks are rendered from a change list with a compound entry that
\* changes the nullable flag only, of a column whose two types differ in
\* their class
C27_Witness ==
    /\ Rendered
    /\ \E i \in 1..Len(diffs) :
          /\ diffs[i].kind = "modify"
          /\ Len(diffs[i].subs) = 1
          /\ diffs[i].subs[1].kind = "modify_nullable"
          /\ LiveColumnOf(diffs[i]).type
                # Col(MetadataTable(EntryTable(diffs[i])), diffs[i].subs[1].cname).type
          /\ upgrades[i].args["existing_type"] = ReprType(LiveColumnOf(diffs[i]).type)

\* C25: when the adapter raises NoSuchTableError while compare.py lists the
\* unique constraints or the indexes of a matched table, the error does not
\* end the pass and the change list holds no unique-constraint entry and no
\* index entry of that table
C25_NoSuchTableTolerated ==
    impl = "package" =>
       \A t \in no_such_table :
          /\ error # NoSuchTableError
          /\ \A i \in 1..Len(diffs) :
                (IndexLevel(diffs[i]) \/ ConstraintLevel(diffs[i]))
                   => diffs[i].subject # t

\* the table t was compared by compare.py with an adapter that cannot list
\* unique constraints
UniquesSkipped(t) ==
    /\ impl = "package"
    /\ opts.unique_reflection # "supported"
    /\ Matched(t)

\* C26: when the adapter cannot list unique constraints, the comparison of a
\* table appends no unique-constraint entry, while the column comparison
\* before it and the index comparison after it run: the columns that only
\* the model's table has, and the indexes (the names of the model's unique
\* constraints apart) that only the model or only the adapter's answer has,
\* are in the change list
C26_UniqueReflectionUnsupported ==
    /\ (impl = "package" /\ opts.unique_reflection # "supported") =>
          /\ \A i \in 1..Len(diffs) : ~ConstraintLevel(diffs[i])
          /\ pc = "indexes" => c_uniques = NoKeys
    /\ \A t \in DOMAIN db :
          (UniquesSkipped(t) /\ ~MetadataTable(t).mapping_only) =>
             /\ \A c \in ColNames(MetadataTable(t)) \ ColNames(db[t]) :
                   Accepted(Col(MetadataTable(t), c), c, "column", FALSE, None) =>
                      \E i \in 1..Len(diffs) :
                         /\ diffs[i].kind = "add_column"
                         /\ EntryTable(diffs[i]) = t
                         /\ diffs[i].column.name = c
             /\ \A k \in (NamesOf(MetadataTable(t).indexes) \ ReportedIndexNames(t))
                             \ UniqueNames(MetadataTable(t)) :
                   \E i \in IndexEntriesAt(t, k) : diffs[i].kind = "add_index"
             /\ \A k \in (ReportedIndexNames(t) \ NamesOf(MetadataTable(t).indexes))
                             \ UniqueNames(MetadataTable(t)) :
                   \E i \in IndexEntriesAt(t, k) : diffs[i].kind = "remove_index"

\* a table whose two sides differ in a named unique constraint, in a column
\* and in an index was compared without unique-constraint listing
C26_Witness ==
    \E t \in DOMAIN db :
       /\ UniquesSkipped(t)
       /\ t[1] = None
       /\ \E k \in UniqueNames(MetadataTable(t)) \cap UniqueNames(db[t]) :
             ByName(MetadataTable(t).uniques, k).column_names
                # ByName(db[t].uniques, k).column_names
       /\ \E i \in 1..Len(diffs) : diffs[i].kind = "add_column" /\ EntryTable(diffs[i]) = t
       /\ \E i \in 1..Len(diffs) : IndexLevel(diffs[i]) /\ diffs[i].subject = t

\* the second loop of _compare_tables has run
RemovalLoopDone ==
    pc \in {"columns", "uniques", "indexes", "upgrade", "downgrade", "done"}

\* the tables only the database has, as the pass saw them
LiveOnlyTables == conn_table_names \ Range(metadata_table_names)

\* C28: with removal enabled, every table only the database has (and the
\* filters accept) has exactly one remove_table entry, no table is loaded
\* into the removal snapshot more than once and every such table is loaded,
\* also when a foreign key of a table reflected earlier has loaded the table
\* already
C28_ReflectedOnce ==
    RemovalLoopDone =>
       /\ \A i, j \in 1..Len(removal_metadata) : removal_metadata[i] = removal_metadata[j] => i = j
       /\ LiveOnlyTables \subseteq Range(removal_metadata)
       /\ remove_tables =>
             \A t \in LiveOnlyTables :
                Accepted(db[t], t[2], "table", TRUE, None) =>
                   Cardinality({i \in 1..Len(diffs) :
                                   /\ diffs[i].kind = "remove_table"
                                   /\ EntryTable(diffs[i]) = t}) = 1

\* two tables only the database has are removed, and the second one visited
\* was loaded by the foreign key of the first
C28_Witness ==
    /\ RemovalLoopDone
    /\ remove_tables
    /\ \E i, j \in 1..Len(diffs) :
          /\ i < j
          /\ diffs[i].kind = "remove_table"
          /\ diffs[j].kind = "remove_table"
          /\ EntryTable(diffs[j]) \in ReferencedTables(EntryTable(diffs[i]))
          /\ removal_metadata = <<EntryTable(diffs[i]), EntryTable(diffs[j])>>

TableLevel(e) == e.kind \in {"add_table", "remove_table"}

\* the column an entry is about, for the three column-level kinds
EntryColumn(e) ==
    CASE e.kind \in {"add_column", "remove_column"} -> e.column.name
      [] e.kind = "modify" -> e.subs[1].cname

ColumnLevel(e) == e.kind \in {"add_column", "remove_column", "modify"}

\* C29 (disjoint subjects): no table with an add_table or remove_table entry
\* has a column, index or unique-constraint entry, and no (table, column)
\* pair has more than one entry among add_column, remove_column and the
\* compound modify
C29_DisjointSubjects ==
    /\ \A i, j \in 1..Len(diffs) :
          (TableLevel(diffs[i]) /\ ~TableLevel(diffs[j]))
             => EntryTable(diffs[i]) # EntryTable(diffs[j])
    /\ \A i, j \in 1..Len(diffs) :
          (/\ ColumnLevel(diffs[i])
           /\ ColumnLevel(diffs[j])
           /\ EntryTable(diffs[i]) = EntryTable(diffs[j])
           /\ EntryColumn(diffs[i]) = EntryColumn(diffs[j]))
          => i = j

\* a pass has ended with a table-level entry for one table and, for another
\* table, entries about two of its columns and about one of its indexes
C29_Witness ==
    /\ pc = "done"
    /\ \E i, j, k, l \in 1..Len(diffs) :
          /\ TableLevel(diffs[i])
          /\ ColumnLevel(diffs[j])
          /\ ColumnLevel(diffs[k])
          /\ IndexLevel(diffs[l])
          /\ EntryTable(diffs[j]) = EntryTable(diffs[k])
          /\ EntryTable(diffs[j]) = EntryTable(diffs[l])
          /\ EntryColumn(diffs[j]) # EntryColumn(diffs[k])

\* the unique-constraint record of an entry is a constraint of the table
\* definition S
OwnConstraint(e, S) ==
    \E x \in S : /\ x.name = e.constraint.name
                 /\ x.column_names = e.constraint.column_names

\* C30 (schema-consistent lookup): for a matched table (S, T), of a named
\* schema or of the default one, the index and unique-constraint entries come
\* from the adapter's records of the table (S, T) itself: a Remove entry
\* carries an index or constraint of that live table, an Add entry never one
\* the live table already has
C30_SchemaConsistentLookup ==
    \A t \in DOMAIN db :
       Matched(t) =>
          \A i \in 1..Len(diffs) :
             ((IndexLevel(diffs[i]) \/ ConstraintLevel(diffs[i]))
                 /\ diffs[i].subject = t) =>
                /\ diffs[i].kind = "remove_index" =>
                      OwnIndex(diffs[i], db[t].indexes)
                /\ diffs[i].kind = "add_index" =>
                      ~OwnIndex(diffs[i], db[t].indexes)
                /\ diffs[i].kind = "remove_constraint" =>
                      OwnConstraint(diffs[i], db[t].uniques)
                /\ diffs[i].kind = "add_constraint" =>
                      ~OwnConstraint(diffs[i], db[t].uniques)

=============================================================================
